---- MODULE Spec2Model ----
(***************************************************************************)
(* Model of the email triage assistant: the label classifier               *)
(* (services/email_classifier.py), the rules engine                        *)
(* (utils/rules_engine.py), the processed-message ledger                   *)
(* (services/persistence_service.py), the statistics document              *)
(* (services/statistics_service.py) and the fetch/label workflow           *)
(* (main.py).                                                              *)
(*                                                                         *)
(* Python strings are modelled as sequences of one-character strings, so   *)
(* that strip(), lower(), substring search and ordering are computed.      *)
(***************************************************************************)
EXTENDS Integers, Sequences, FiniteSets, TLC

(***************************************************************************)
(* Bounds of the model                                                     *)
(***************************************************************************)
\* longest run of blanks put around a raw label
MaxPad == 1
\* largest set of raw labels handed to the canonicalization
MaxSet == 3
\* number of fetch and label runs started in one behaviour
MaxRuns == 2
\* number of label runs started by two overlapping processes together
MaxOverlapRuns == 2
\* largest batch the mailbox returns (the fetch limit)
MaxBatch == 2
\* processed_at takes the values 0..MaxTime
MaxTime == 1
\* mark_processed calls made when the ledger is driven directly
MaxMarks == 3
\* largest number of rule definitions in a rules file
MaxRules == 3
\* calls and file changes made when the statistics are driven directly
MaxCalls == 3
\* largest count handed to record_fetch
MaxCount == 2
MaxUnread == 3

(***************************************************************************)
(* Strings                                                                 *)
(***************************************************************************)
UpperChars ==
  <<"A","B","C","D","E","F","G","H","I","J","K","L","M",
    "N","O","P","Q","R","S","T","U","V","W","X","Y","Z">>

LowerChars ==
  <<"a","b","c","d","e","f","g","h","i","j","k","l","m",
    "n","o","p","q","r","s","t","u","v","w","x","y","z">>

\* the characters str.strip() removes (those the model uses)
Whitespace == {" ", "\t", "\n"}

\* code point order of the characters the model uses
AsciiOrder == <<"\t", "\n", " ">> \o UpperChars \o LowerChars

Range(s) == {s[i] : i \in DOMAIN s}

IndexOf(c, s) == CHOOSE i \in DOMAIN s : s[i] = c

Ord(c) == IndexOf(c, AsciiOrder)

\* str.lower() on one character
lower_char(c) ==
  IF c \in Range(UpperChars) THEN LowerChars[IndexOf(c, UpperChars)] ELSE c

\* str.upper() on one character
upper_char(c) ==
  IF c \in Range(LowerChars) THEN UpperChars[IndexOf(c, LowerChars)] ELSE c

\* str.lower()
lower(s) == [i \in 1..Len(s) |-> lower_char(s[i])]

\* str.upper()
upper(s) == [i \in 1..Len(s) |-> upper_char(s[i])]

RECURSIVE lstrip(_)
lstrip(s) ==
  IF s = <<>> THEN <<>>
  ELSE IF Head(s) \in Whitespace THEN lstrip(Tail(s)) ELSE s

RECURSIVE rstrip(_)
rstrip(s) ==
  IF s = <<>> THEN <<>>
  ELSE IF s[Len(s)] \in Whitespace THEN rstrip(SubSeq(s, 1, Len(s) - 1)) ELSE s

\* str.strip()
strip(s) == rstrip(lstrip(s))

\* a < b for Python strings (code point order, a proper prefix is smaller)
RECURSIVE str_lt(_, _)
str_lt(a, b) ==
  IF b = <<>> THEN FALSE
  ELSE IF a = <<>> THEN TRUE
  ELSE IF Head(a) = Head(b) THEN str_lt(Tail(a), Tail(b))
  ELSE Ord(Head(a)) < Ord(Head(b))

\* sorted(S) for a collection of distinct strings
RECURSIVE sorted(_)
sorted(S) ==
  IF S = {} THEN <<>>
  ELSE LET least == CHOOSE x \in S : \A y \in S \ {x} : str_lt(x, y)
       IN  <<least>> \o sorted(S \ {least})

(***************************************************************************)
(* Label canonicalization (services/email_classifier.py)                   *)
(***************************************************************************)
Work       == <<"W","o","r","k">>
Personal   == <<"P","e","r","s","o","n","a","l">>
Finance    == <<"F","i","n","a","n","c","e">>
Promotions == <<"P","r","o","m","o","t","i","o","n","s">>
Spam       == <<"S","p","a","m">>

DEFAULT_LABELS == {Work, Personal, Finance, Promotions, Spam}

\* variant: the lookup is keyed by the canonical casing, not the lower case
_canonical_name_cased(name) ==
  IF lower(name) \in DEFAULT_LABELS THEN lower(name) ELSE name

\* lookup = {value.lower(): value ...}; lookup.get(name.lower(), name)
_canonical_name(name) ==
  IF \E value \in DEFAULT_LABELS : lower(value) = lower(name)
  THEN CHOOSE value \in DEFAULT_LABELS : lower(value) = lower(name)
  ELSE name

\* variant: the vocabulary test looks at the label before it was trimmed
cleaned_of_untrimmed(label) ==
  LET normalized == strip(label)
  IN  IF normalized = <<>> THEN {}
      ELSE IF lower(label) \in {lower(value) : value \in DEFAULT_LABELS}
           THEN {_canonical_name(label)}
           ELSE {normalized}

\* what one label of the loop adds to `cleaned`
cleaned_of(label) ==
  LET normalized == strip(label)
  IN  IF normalized = <<>> THEN {}
      ELSE IF lower(normalized) \in {lower(value) : value \in DEFAULT_LABELS}
           THEN {_canonical_name(normalized)}
           ELSE {normalized}

\* labels: the set of elements of the iterable handed in
_filter_allowed_labels(labels) ==
  sorted(UNION {cleaned_of(label) : label \in labels})

(***************************************************************************)
(* Messages and rules (models/email_message.py, models/rule.py)            *)
(***************************************************************************)
\* Python's None, and a str object (an Optional[str] is one of the two)
None == [kind |-> "NoneType"]
Str(s) == [kind |-> "str", str |-> s]

\* truth value of an Optional[str]: None and "" are falsy
truthy(v) == v.kind = "str" /\ v.str /= <<>>

EmailMessage(id, subject, body) == [id |-> id, subject |-> subject, body |-> body]

Rule(label, keywords, match_subject, match_body, priority) ==
  [label |-> label, keywords |-> keywords, match_subject |-> match_subject,
   match_body |-> match_body, priority |-> priority]

\* variant: the keywords keep their casing
normalized_keywords_cased(rule) == rule.keywords

normalized_keywords(rule) ==
  [i \in 1..Len(rule.keywords) |-> lower(rule.keywords[i])]

\* kw in text
contains(kw, text) ==
  \E i \in 0..(Len(text) - Len(kw)) : SubSeq(text, i + 1, i + Len(kw)) = kw

(***************************************************************************)
(* Rules engine (utils/rules_engine.py)                                    *)
(***************************************************************************)
\* variant: r goes in front of the elements of its own priority
RECURSIVE insert_before_equal(_, _)
insert_before_equal(r, s) ==
  IF s = <<>> THEN <<r>>
  ELSE IF Head(s).priority > r.priority
       THEN <<Head(s)>> \o insert_before_equal(r, Tail(s))
       ELSE <<r>> \o s

\* insert r behind every element whose priority is >= r.priority
RECURSIVE insert_by_priority(_, _)
insert_by_priority(r, s) ==
  IF s = <<>> THEN <<r>>
  ELSE IF Head(s).priority >= r.priority
       THEN <<Head(s)>> \o insert_by_priority(r, Tail(s))
       ELSE <<r>> \o s

\* sorted(rules, key=lambda r: r.priority, reverse=True): stable
RECURSIVE sorted_by_priority(_)
sorted_by_priority(rules) ==
  IF rules = <<>> THEN <<>>
  ELSE insert_by_priority(rules[Len(rules)],
                          sorted_by_priority(SubSeq(rules, 1, Len(rules) - 1)))

\* variant: every rule matches every message
rule_hits_always(rule, email) == TRUE

rule_hits(rule, email) ==
  LET subject  == lower(email.subject)
      body     == lower(email.body)
      keywords == normalized_keywords(rule)
      subject_hit == rule.match_subject
                       /\ \E k \in DOMAIN keywords : contains(keywords[k], subject)
      body_hit == rule.match_body
                       /\ \E k \in DOMAIN keywords : contains(keywords[k], body)
  IN  subject_hit \/ body_hit

RECURSIVE labels_of_hits(_, _)
labels_of_hits(rules, email) ==
  IF rules = <<>> THEN <<>>
  ELSE (IF rule_hits(Head(rules), email) THEN <<Head(rules).label>> ELSE <<>>)
         \o labels_of_hits(Tail(rules), email)

\* RulesEngine.match
match(rules, email) == labels_of_hits(sorted_by_priority(rules), email)

\* a RulesEngine object holding the loaded rules
RulesEngine(rules) == [kind |-> "RulesEngine", rules |-> rules]

\* a Python list object
List(items) == [kind |-> "list", items |-> items]

\* a file that does not exist, and a file holding a text
NoFile == [exists |-> FALSE, json |-> [kind |-> "NoneType"]]
TextFile(json) == [exists |-> TRUE, json |-> json]

\* a text json.loads rejects: nothing but blanks, or anything not JSON
BlankText   == [undecodable |-> "blank"]
GarbageText == [undecodable |-> "garbage"]

\* json.loads(text): the value the text denotes (a dict, or a list for a
\* JSON array), or JSONDecodeError
json_loads(text) ==
  IF "undecodable" \in DOMAIN text THEN [exc |-> "JSONDecodeError", value |-> text]
  ELSE [exc |-> "", value |-> text]

\* item["label"], item.get("keywords", []), ... of one rule definition
rule_of_item(item) ==
  Rule(item["label"],
       IF "keywords" \in DOMAIN item THEN item["keywords"] ELSE <<>>,
       IF "match_subject" \in DOMAIN item THEN item["match_subject"] ELSE TRUE,
       IF "match_body" \in DOMAIN item THEN item["match_body"] ELSE TRUE,
       IF "priority" \in DOMAIN item THEN item["priority"] ELSE 0)

\* RulesEngine.reload: the rules it loads, or the exception it raises
reload(rules_file) ==
  IF ~rules_file.exists THEN [exc |-> "FileNotFoundError", value |-> <<>>]
  ELSE LET data == json_loads(rules_file.json)
       IN  IF data.exc /= "" THEN [exc |-> data.exc, value |-> <<>>]
           ELSE IF "kind" \in DOMAIN data.value   \* a list has no .get
           THEN [exc |-> "AttributeError", value |-> <<>>]
           ELSE LET rules == IF "rules" \in DOMAIN data.value
                             THEN data.value["rules"] ELSE <<>>
                IN  IF \E i \in DOMAIN rules : "label" \notin DOMAIN rules[i]
                    THEN [exc |-> "KeyError", value |-> <<>>]
                    ELSE [exc |-> "",
                          value |-> [i \in DOMAIN rules |-> rule_of_item(rules[i])]]

\* variant: the list is emptied before the rules are built
_rules_assigned_cleared(_rules, loaded) ==
  IF loaded.exc /= "" THEN <<>> ELSE loaded.value

\* `self._rules = [Rule(...) for item in rules]`: the list is built in full
\* before it is bound, so a reload that raises binds nothing
_rules_assigned(_rules, loaded) ==
  IF loaded.exc /= "" THEN _rules ELSE loaded.value

(***************************************************************************)
(* Optional ML predictor (services/ml_classifier.py)                       *)
(***************************************************************************)
\* the outcome of a call: a returned value or a raised exception
Return(v) == [exc |-> "", value |-> v]
Raise(e)  == [exc |-> e, value |-> None]
raised(r) == r.exc /= ""

\* a loaded scikit-learn pipeline: predict([text])[0] gives `label`, or the
\* pipeline raises
Pipeline(label, raises) == [kind |-> "Pipeline", label |-> label, raises |-> raises]

MLClassifier(sklearn_pipeline) ==
  [kind |-> "MLClassifier", sklearn_pipeline |-> sklearn_pipeline,
   transformer_pipeline |-> None]

is_ready(ml) ==
  ml.sklearn_pipeline.kind /= "NoneType" \/ ml.transformer_pipeline.kind /= "NoneType"

\* MLClassifier.predict (the scikit-learn branch)
predict(ml, text) ==
  IF text = <<>> \/ ~is_ready(ml) THEN Return(None)
  ELSE IF ml.sklearn_pipeline.kind /= "NoneType"
       THEN IF ml.sklearn_pipeline.raises THEN Raise("ValueError")
            ELSE Return(Str(ml.sklearn_pipeline.label))
       ELSE Return(None)

\* f"{email.subject}\n{email.body}"
text_of(email) == email.subject \o <<"\n">> \o email.body

(***************************************************************************)
(* Labeling strategies (services/strategies, tests/test_email_classifier)  *)
(***************************************************************************)
RuleBasedStrategy(rules_engine) == [kind |-> "RuleBasedStrategy", engine |-> rules_engine]
MLStrategy(ml) == [kind |-> "MLStrategy", classifier |-> ml]
DummyStrategy(labels) == [kind |-> "DummyStrategy", labels |-> labels]

\* labels_for of each strategy class
labels_for(strategy, email) ==
  IF strategy.kind = "RuleBasedStrategy"
  THEN Return(match(strategy.engine.rules, email))
  ELSE IF strategy.kind = "MLStrategy"
  THEN LET prediction == IF is_ready(strategy.classifier)
                         THEN predict(strategy.classifier, text_of(email))
                         ELSE Return(None)
       IN  IF raised(prediction) THEN prediction
           ELSE IF truthy(prediction.value)
                THEN Return(<<prediction.value.str>>) ELSE Return(<<>>)
  ELSE IF strategy.labels = <<>> THEN Return(<<>>)
       ELSE Return(<<Head(strategy.labels)>>)

(***************************************************************************)
(* Classifier (services/email_classifier.py)                               *)
(***************************************************************************)
\* EmailClassifier.__init__(rules_engine, ml_classifier=None) stores what
\* it is given; nothing checks the kind of the first argument
EmailClassifier(rules_engine, ml_classifier) ==
  [rules_engine |-> rules_engine, ml_classifier |-> ml_classifier]

_ml_prediction(self, email) ==
  IF self.ml_classifier.kind = "NoneType" \/ ~is_ready(self.ml_classifier) THEN None
  ELSE LET prediction == predict(self.ml_classifier, text_of(email))
       IN  IF raised(prediction) THEN None ELSE prediction.value

\* variant: the labels are returned in descending order
classify_descending(self, email) ==
  IF self.rules_engine.kind /= "RulesEngine" THEN Raise("AttributeError")
  ELSE LET labels     == Range(match(self.rules_engine.rules, email))
           prediction == _ml_prediction(self, email)
           merged     == IF truthy(prediction)
                         THEN labels \cup {prediction.str} ELSE labels
           ascending  == sorted(Range(_filter_allowed_labels(merged)))
       IN  Return([i \in 1..Len(ascending) |-> ascending[Len(ascending) + 1 - i]])

\* EmailClassifier.classify: self.rules_engine.match is looked up on the
\* stored object, and only a RulesEngine has that attribute; the locals
\* `labels` and `filtered` are bound to their values, each computed once
classify(self, email) ==
  IF self.rules_engine.kind /= "RulesEngine" THEN Raise("AttributeError")
  ELSE LET prediction == _ml_prediction(self, email)
           merged(labels) == IF truthy(prediction)
                             THEN labels \cup {prediction.str} ELSE labels
       IN  CHOOSE result \in
             UNION {{Return(sorted(Range(filtered))) :
                       filtered \in {_filter_allowed_labels(merged(labels))}} :
                    labels \in {Range(match(self.rules_engine.rules, email))}} :
             TRUE

(***************************************************************************)
(* Python dicts                                                            *)
(***************************************************************************)
EmptyDict == <<>>

\* d.get(k, default)
Get(d, k, default) == IF k \in DOMAIN d THEN d[k] ELSE default

\* d[k] = v
Put(d, k, v) == [x \in (DOMAIN d) \cup {k} |-> IF x = k THEN v ELSE d[x]]

\* counter[label] += count for every (label, count) of label_counts
AddCounts(counter, label_counts) ==
  [l \in (DOMAIN counter) \cup (DOMAIN label_counts) |->
     Get(counter, l, 0) + Get(label_counts, l, 0)]

\* for label in labels: counter[label] += 1
RECURSIVE CountEach(_, _)
CountEach(counter, labels) ==
  IF labels = <<>> THEN counter
  ELSE CountEach(Put(counter, Head(labels), Get(counter, Head(labels), 0) + 1),
                 Tail(labels))

(***************************************************************************)
(* Processed ledger (services/persistence_service.py)                      *)
(***************************************************************************)
\* the SQLite file before any store was constructed on it
NoDatabase == [has_table |-> FALSE, rows |-> {}]

\* variant: the table is created anew each time
_ensure_schema_recreate(db) == [has_table |-> TRUE, rows |-> {}]

\* CREATE TABLE IF NOT EXISTS processed_emails
_ensure_schema(db) ==
  IF db.has_table THEN db ELSE [has_table |-> TRUE, rows |-> {}]

\* ProcessedStore(db_path)
ProcessedStore(db) == _ensure_schema(db)

\* variant: the two query parameters are bound in the wrong order
is_processed_swapped(db, account, message_id) ==
  \E row \in db.rows : row.account = message_id /\ row.message_id = account

\* variant: the query selects on the message id alone
is_processed_any_account(db, account, message_id) ==
  \E row \in db.rows : row.message_id = message_id

\* SELECT 1 ... WHERE account=? AND message_id=?
is_processed(db, account, message_id) ==
  \E row \in db.rows : row.account = account /\ row.message_id = message_id

\* variant: the insert is never committed
mark_processed_lost(db, account, message_id, timestamp) == db

\* variant: the primary key is the message id alone
mark_processed_id_key(db, account, message_id, timestamp) ==
  [db EXCEPT !.rows =
     {row \in @ : row.message_id /= message_id}
       \cup {[account |-> account, message_id |-> message_id,
              processed_at |-> timestamp]}]

\* variant: the account is bound to both columns of the key
mark_processed_account_key(db, account, message_id, timestamp) ==
  [db EXCEPT !.rows =
     {row \in @ : ~(row.account = account /\ row.message_id = account)}
       \cup {[account |-> account, message_id |-> account,
              processed_at |-> timestamp]}]

\* variant: the row is written without its account
mark_processed_no_account(db, account, message_id, timestamp) ==
  [db EXCEPT !.rows =
     {row \in @ : ~(row.account = "" /\ row.message_id = message_id)}
       \cup {[account |-> "", message_id |-> message_id,
              processed_at |-> timestamp]}]

\* INSERT OR REPLACE: the row with the same primary key is replaced
mark_processed(db, account, message_id, timestamp) ==
  [db EXCEPT !.rows =
     {row \in @ : ~(row.account = account /\ row.message_id = message_id)}
       \cup {[account |-> account, message_id |-> message_id,
              processed_at |-> timestamp]}]

(***************************************************************************)
(* Statistics document (services/statistics_service.py)                    *)
(***************************************************************************)
\* accounts = stats.setdefault("accounts", {}); accounts.setdefault(account, {})
_account_bucket(stats, account) ==
  Get(Get(stats, "accounts", EmptyDict), account, EmptyDict)

\* the document with the bucket of `account` replaced
with_bucket(stats, account, bucket) ==
  Put(stats, "accounts", Put(Get(stats, "accounts", EmptyDict), account, bucket))

\* variant: a fetch that returned no message is not counted
record_fetch_skips_empty(stats, account, count) ==
  IF count = 0 THEN stats
  ELSE LET s1 == Put(stats, "fetch_runs", Get(stats, "fetch_runs", 0) + 1)
           s2 == Put(s1, "emails_seen", Get(s1, "emails_seen", 0) + count)
           b0 == _account_bucket(s2, account)
           b1 == Put(b0, "fetch_runs", Get(b0, "fetch_runs", 0) + 1)
           b2 == Put(b1, "emails_seen", Get(b1, "emails_seen", 0) + count)
       IN  with_bucket(s2, account, b2)

\* variant: emails_seen holds the count of the last fetch
record_fetch_last(stats, account, count) ==
  LET s1 == Put(stats, "fetch_runs", Get(stats, "fetch_runs", 0) + 1)
      s2 == Put(s1, "emails_seen", count)
      b0 == _account_bucket(s2, account)
      b1 == Put(b0, "fetch_runs", Get(b0, "fetch_runs", 0) + 1)
      b2 == Put(b1, "emails_seen", count)
  IN  with_bucket(s2, account, b2)

\* variant: the global counters are left out
record_fetch_no_global(stats, account, count) ==
  LET b0 == _account_bucket(stats, account)
      b1 == Put(b0, "fetch_runs", Get(b0, "fetch_runs", 0) + 1)
      b2 == Put(b1, "emails_seen", Get(b1, "emails_seen", 0) + count)
  IN  with_bucket(stats, account, b2)

\* lines 34-38 of record_fetch, on the mapping _read returned
record_fetch(stats, account, count) ==
  LET s1 == Put(stats, "fetch_runs", Get(stats, "fetch_runs", 0) + 1)
      s2 == Put(s1, "emails_seen", Get(s1, "emails_seen", 0) + count)
      b0 == _account_bucket(s2, account)
      b1 == Put(b0, "fetch_runs", Get(b0, "fetch_runs", 0) + 1)
      b2 == Put(b1, "emails_seen", Get(b1, "emails_seen", 0) + count)
  IN  with_bucket(s2, account, b2)

\* variant: the counts are merged into the tallies twice
record_label_application_twice(stats, account, label_counts) ==
  LET twice == AddCounts(label_counts, label_counts)
      s1 == Put(stats, "label_runs", Get(stats, "label_runs", 0) + 1)
      s2 == Put(s1, "labels", AddCounts(Get(s1, "labels", EmptyDict), twice))
      b0 == _account_bucket(s2, account)
      b1 == Put(b0, "label_runs", Get(b0, "label_runs", 0) + 1)
      b2 == Put(b1, "labels", AddCounts(Get(b1, "labels", EmptyDict), twice))
  IN  with_bucket(s2, account, b2)

\* variant: the tallies of the account are not merged
record_label_application_global_only(stats, account, label_counts) ==
  LET s1 == Put(stats, "label_runs", Get(stats, "label_runs", 0) + 1)
      s2 == Put(s1, "labels", AddCounts(Get(s1, "labels", EmptyDict), label_counts))
      b0 == _account_bucket(s2, account)
      b1 == Put(b0, "label_runs", Get(b0, "label_runs", 0) + 1)
  IN  with_bucket(s2, account, b1)

\* lines 43-54 of record_label_application, on the mapping _read returned
record_label_application(stats, account, label_counts) ==
  LET s1 == Put(stats, "label_runs", Get(stats, "label_runs", 0) + 1)
      s2 == Put(s1, "labels", AddCounts(Get(s1, "labels", EmptyDict), label_counts))
      b0 == _account_bucket(s2, account)
      b1 == Put(b0, "label_runs", Get(b0, "label_runs", 0) + 1)
      b2 == Put(b1, "labels", AddCounts(Get(b1, "labels", EmptyDict), label_counts))
  IN  with_bucket(s2, account, b2)

\* StatisticsService(stats_file): the file is created if absent, and a file
\* holding nothing but blanks gets "{}"
StatisticsService(file) ==
  IF "undecodable" \in DOMAIN file /\ file["undecodable"] = "blank"
  THEN EmptyDict ELSE file

\* variant: every read starts from an empty document
_read_resets(file) == [value |-> EmptyDict, file |-> EmptyDict]

\* StatisticsService._read: the parsed document and the file afterwards;
\* on JSONDecodeError the file is rewritten as "{}"
_read(file) ==
  LET data == json_loads(file)
  IN  IF raised(data) THEN [value |-> EmptyDict, file |-> EmptyDict]
      ELSE [value |-> data.value, file |-> file]

\* the outcome of a call of the service: what it raised or returned, and
\* the file it leaves
Outcome(exc, value, file) == [exc |-> exc, value |-> value, file |-> file]

\* StatisticsService.record_fetch; stats.get fails on a list
stats_record_fetch(file, account, count) ==
  LET stats == _read(file)
  IN  IF "kind" \in DOMAIN stats.value
      THEN Outcome("AttributeError", None, stats.file)
      ELSE Outcome("", None, record_fetch(stats.value, account, count))

\* StatisticsService.record_label_application; stats.get fails on a list
stats_record_label_application(file, account, label_counts) ==
  LET stats == _read(file)
  IN  IF "kind" \in DOMAIN stats.value
      THEN Outcome("AttributeError", None, stats.file)
      ELSE Outcome("", None,
                   record_label_application(stats.value, account, label_counts))

\* StatisticsService.snapshot
stats_snapshot(file) ==
  LET stats == _read(file)
  IN  Outcome("", stats.value, stats.file)

(***************************************************************************)
(* Mailbox gateway (services/gmail_service.py)                             *)
(***************************************************************************)
\* a mailbox: the labels it has (a label's id is modelled by the name it was
\* created with) and the label ids attached to each message
EmptyMailbox(ids) == [labels |-> {}, msg_labels |-> [m \in ids |-> {}]]

\* GmailService.ensure_label: the id of the label whose name matches
\* case-insensitively, or of the label created with this name
ensure_label_id(mailbox, label_name) ==
  IF \E l \in mailbox.labels : lower(l) = lower(label_name)
  THEN CHOOSE l \in mailbox.labels : lower(l) = lower(label_name)
  ELSE label_name

ensure_label(mailbox, label_name) ==
  [mailbox EXCEPT !.labels = @ \cup {ensure_label_id(mailbox, label_name)}]

\* GmailService.apply_labels: addLabelIds
apply_labels(mailbox, message_id, labels_to_add) ==
  IF labels_to_add = <<>> THEN mailbox
  ELSE [mailbox EXCEPT !.msg_labels[message_id] = @ \cup Range(labels_to_add)]

\* GmailService.fetch_unread_messages: the first max_results messages that
\* carry the UNREAD label, in the order the provider lists them
fetch_unread_messages(unread_ids, max_results) ==
  SubSeq(unread_ids, 1, IF max_results < Len(unread_ids)
                        THEN max_results ELSE Len(unread_ids))

(***************************************************************************)
(* Inputs of the model                                                     *)
(***************************************************************************)
\* the subsets of S with at most n elements
RECURSIVE BoundedSubsets(_, _)
BoundedSubsets(S, n) ==
  IF n = 0 THEN {{}}
  ELSE LET smaller == BoundedSubsets(S, n - 1)
       IN  smaller \cup {T \cup {x} : T \in smaller, x \in S}

\* swap the case of every letter
swapcase(s) ==
  [i \in 1..Len(s) |-> IF s[i] \in Range(UpperChars) THEN lower_char(s[i])
                        ELSE upper_char(s[i])]

Variants(w) == {w, lower(w), upper(w), swapcase(w)}

Pads == {[i \in 1..n |-> " "] : n \in 0..MaxPad}

Ok   == <<"O","k">>
ToDo == <<"T","o"," ","d","o">>

RawCores == Variants(Work) \cup {lower(Spam), Ok, swapcase(Ok), <<>>, ToDo}

\* raw labels as a strategy may produce them
RawLabels ==
  {l \o c \o r : l \in Pads, c \in RawCores, r \in Pads}
    \cup {<<"\t">> \o lower(Work) \o <<"\n">>}

\* words of the sample messages and rules
Sp      == <<" ">>
Invoice == <<"I","n","v","o","i","c","e">>
project == <<"p","r","o","j","e","c","t">>
for     == <<"f","o","r">>

Subjects == {Invoice \o Sp \o for \o Sp \o project, upper(project), <<>>}
Bodies   == {<<>>, <<"a","n">> \o Sp \o lower(Invoice)}

\* the content of the sample messages (the id is filled in by the mailbox)
Emails == {EmailMessage("1", sub, body) : sub \in Subjects, body \in Bodies}

\* the rule set of tests/test_rules_engine.py, and variations of its labels
TestRules ==
  <<Rule(Work, <<project>>, TRUE, TRUE, 2), Rule(Finance, <<Invoice>>, TRUE, TRUE, 5)>>

RuleSets ==
  { TestRules,
    <<Rule(Sp \o lower(Work), <<project>>, TRUE, FALSE, 0),
      Rule(Ok, <<Invoice>>, FALSE, TRUE, 0),
      Rule(Sp, <<project>>, TRUE, TRUE, 1)>>,
    <<>> }

Pipelines == {Pipeline(upper(Spam), FALSE), Pipeline(Ok, TRUE)}

MLClassifiers == {MLClassifier(None)} \cup {MLClassifier(pl) : pl \in Pipelines}

\* the strategy lists of build_context and of tests/test_email_classifier.py
StrategyLists ==
  { <<RuleBasedStrategy(RulesEngine(TestRules))>>,
    <<RuleBasedStrategy(RulesEngine(TestRules)),
      MLStrategy(MLClassifier(Pipeline(upper(Spam), FALSE)))>>,
    <<DummyStrategy(<<Work>>), DummyStrategy(<<Finance>>)>>,
    <<MLStrategy(MLClassifier(Pipeline(Ok, TRUE))), DummyStrategy(<<Ok>>)>>,
    <<RuleBasedStrategy(RulesEngine(TestRules)),
      MLStrategy(MLClassifier(Pipeline(Ok, TRUE)))>> }

\* the classifiers: built from a rules engine and an optional predictor (the
\* constructor's signature), or from a list of strategies (build_context,
\* tests/test_email_classifier.py)
Classifiers ==
  {EmailClassifier(RulesEngine(rs), ml) : rs \in RuleSets, ml \in {None} \cup MLClassifiers}
    \cup {EmailClassifier(List(sl), None) : sl \in StrategyLists}

\* the sequences over S of length at most n
SeqsUpTo(S, n) == UNION {[1..k -> S] : k \in 0..n}

\* rule definitions as rules.json may hold them: the two of
\* tests/test_rules_engine.py, one for the body only, one without keywords,
\* one for the subject only, and one that lacks its label
RuleItems ==
  { [label |-> Work, keywords |-> <<project>>, priority |-> 2],
    [label |-> Finance, keywords |-> <<Invoice>>, priority |-> 5],
    [label |-> Ok, keywords |-> <<Invoice>>, match_subject |-> FALSE],
    [label |-> Spam, keywords |-> <<>>, priority |-> 5],
    [label |-> Personal, keywords |-> <<upper(project)>>, match_body |-> FALSE,
     priority |-> 2],
    [keywords |-> <<project>>] }

\* what the rules file may be: absent, not JSON, a JSON array, or an object
\* with (or without) its "rules"
RulesFiles ==
  {NoFile, TextFile(GarbageText), TextFile(BlankText), TextFile(List(<<>>)),
   TextFile(<<>>)}
    \cup {TextFile([rules |-> items]) : items \in SeqsUpTo(RuleItems, MaxRules)}

this == <<"t","h","i","s">>
is   == <<"i","s">>
an   == <<"a","n">>

\* the messages the rules are matched against
RuleEmails ==
  {EmailMessage("1", subject, body) :
     subject \in {Invoice \o Sp \o for \o Sp \o project, <<>>},
     body \in {<<>>, this \o Sp \o is \o Sp \o an \o Sp \o lower(Invoice),
               upper(project)}}

\* the predictors: no model, a model that predicts a label (also a blank
\* one, a padded one), a model that raises
Predictors ==
  MLClassifiers
    \cup {MLClassifier(Pipeline(label, raises)) :
            label \in {<<>>, Sp \o lower(Work)}, raises \in BOOLEAN}

\* the label counts of a label run
LabelCounts ==
  { CountEach(EmptyDict, <<Work>>),
    CountEach(EmptyDict, <<Finance, Work, Finance>>),
    EmptyDict }

\* what the statistics file may be overwritten with from outside
CorruptTexts == {BlankText, GarbageText, List(<<>>)}

\* accounts of accounts.json, message ids of a mailbox, CLI processes
Accounts == {"acct1", "other"}
MessageIds == {"abc", "m2", "m3"}
Procs == {"p1", "p2"}
Timestamps == 0..MaxTime

\* the message the mailbox holds under an id
Mail(id) ==
  IF id = "abc" THEN EmailMessage(id, Invoice \o Sp \o for \o Sp \o project, <<>>)
  ELSE IF id = "m2" THEN EmailMessage(id, <<>>, <<"a","n">> \o Sp \o lower(Invoice))
  ELSE EmailMessage(id, <<>>, <<>>)

\* sequences of distinct elements of S of length at most n
RECURSIVE InjectiveSeqs(_, _)
InjectiveSeqs(S, n) ==
  IF n = 0 THEN {<<>>}
  ELSE LET shorter == InjectiveSeqs(S, n - 1)
       IN  shorter \cup UNION {{Append(q, x) : x \in S \ Range(q)} : q \in shorter}

\* what fetch_unread_messages may return: up to MaxBatch distinct messages,
\* in the provider's order
Batches == InjectiveSeqs(MessageIds, MaxBatch)

\* the classifier of the context: built by build_context (a list holding the
\* rule-based strategy), or from the rules engine itself
AppClassifiers ==
  { EmailClassifier(List(<<RuleBasedStrategy(RulesEngine(TestRules))>>), None),
    EmailClassifier(RulesEngine(TestRules), None) }

(***************************************************************************)
(* State                                                                   *)
(***************************************************************************)
VARIABLES
  raw_labels,    \* canonicalization: the labels handed in
  canon_step,    \* canonicalization: how many times it was applied
  canon_once,    \* canonicalization: the result of the first application
  canon_twice,   \* canonicalization: the result of applying it to canon_once
  clf,           \* classifier check: the EmailClassifier object
  clf_email,     \* classifier check: the message
  clf_step,      \* classifier check: 1 once classify has returned or raised
  clf_result,    \* classifier check: the outcome of classify
  db,            \* the SQLite database of processed messages
  stats_file,    \* the statistics document
  gmail,         \* the mailbox of each account
  classifier,    \* the EmailClassifier of the application context
  run,           \* per process: the position and locals of its command
  runs_left,     \* fetch and label runs that may still start
  accounts,      \* the account names of the configuration
  apply_calls,   \* history: apply_labels calls per account and message
  apply_returns, \* history: apply_labels calls that returned
  ensure_calls,  \* history: ensure_label calls made for a message
  marked,        \* history: mark_processed calls per (account, id) pair
  last_query     \* ledger check: the last is_processed call and its result

VARIABLES
  rules_file,    \* rules check: the rules file
  rules_engine,  \* rules check: the RulesEngine constructed on it, if any
  rules_email,   \* rules check: the message
  rules_pc,      \* rules check: "start", "loaded", "failed", "matched", "rewritten"
  rules_result,  \* rules check: the outcome of the last call
  stats_log,     \* history: the calls of the statistics service and the
                 \* overwrites of its file, with the file before and after
  ml,            \* predictor check: the MLClassifier
  ml_email,      \* predictor check: the message
  ml_call        \* predictor check: the last call and its outcome

VARIABLES
  fetched,       \* history: per account, the fetch runs that returned and
                 \* the messages they returned
  classify_calls, \* history: classify calls that returned, per account and
                 \* message, counted up to MaxRuns
  ctx_config,    \* context check: the predictor settings of the configuration
  ctx_env,       \* context check: what is installed and what the model file holds
  ctx_pc,        \* context check: "start", "built", "failed" or "classified"
  ctx_result,    \* context check: the outcome of building the classifier
  ctx_labels,    \* context check: the outcome of classify on the classifier built
  unread,        \* the unread messages of the mailbox, in the provider's order
  limit          \* the fetch limit of the configuration

canonVars == <<raw_labels, canon_step, canon_once, canon_twice>>
clfVars   == <<clf, clf_email, clf_step, clf_result>>
appVars   == <<db, stats_file, gmail, classifier, run, runs_left, accounts,
               apply_calls, apply_returns, ensure_calls, marked, last_query>>
rulesVars == <<rules_file, rules_engine, rules_email, rules_pc, rules_result>>
statsVars == <<stats_log>>
mlVars    == <<ml, ml_email, ml_call>>
histVars  == <<fetched, classify_calls>>
ctxVars   == <<ctx_config, ctx_env, ctx_pc, ctx_result, ctx_labels>>
liveVars  == <<unread, limit>>
moreVars  == <<histVars, ctxVars, liveVars>>
extVars   == <<rulesVars, statsVars, mlVars, moreVars>>
vars      == <<canonVars, clfVars, appVars, extVars>>

CanonIdle ==
  /\ raw_labels = {}
  /\ canon_step = 0
  /\ canon_once = <<>>
  /\ canon_twice = <<>>

ClfIdle ==
  /\ clf = EmailClassifier(RulesEngine(<<>>), None)
  /\ clf_email = EmailMessage("1", <<>>, <<>>)
  /\ clf_step = 0
  /\ clf_result = Return(<<>>)

\* a process that is not running: no context, no command
NotRunning ==
  [pc |-> "exited", account |-> "acct1", dry_run |-> FALSE, emails |-> <<>>,
   idx |-> 1, labels |-> <<>>, lidx |-> 1, label_cache |-> EmptyDict,
   label_ids |-> <<>>, applied_labels |-> EmptyDict, skipped |-> 0,
   nothing |-> FALSE, classified |-> {}, ledger0 |-> {},
   ensured |-> EmptyDict, applies |-> EmptyDict]

NoQuery == [account |-> "acct1", message_id |-> "abc", result |-> FALSE, asked |-> FALSE]

AppIdle ==
  /\ db = NoDatabase
  /\ stats_file = EmptyDict
  /\ gmail = [a \in Accounts |-> EmptyMailbox(MessageIds)]
  /\ classifier = EmailClassifier(RulesEngine(<<>>), None)
  /\ run = [p \in {"p1"} |-> NotRunning]
  /\ runs_left = 0
  /\ accounts = Accounts
  /\ apply_calls = [a \in Accounts |-> [m \in MessageIds |-> 0]]
  /\ apply_returns = [a \in Accounts |-> [m \in MessageIds |-> 0]]
  /\ ensure_calls = [a \in Accounts |-> [m \in MessageIds |-> 0]]
  /\ marked = EmptyDict
  /\ last_query = NoQuery

RulesIdle ==
  /\ rules_file = NoFile
  /\ rules_engine = None
  /\ rules_email = EmailMessage("1", <<>>, <<>>)
  /\ rules_pc = "start"
  /\ rules_result = Return(<<>>)

StatsIdle == stats_log = <<>>

NoCall == [op |-> "", exc |-> "", value |-> None]

MlIdle ==
  /\ ml = MLClassifier(None)
  /\ ml_email = EmailMessage("1", <<>>, <<>>)
  /\ ml_call = NoCall

HistIdle ==
  /\ fetched = [a \in Accounts |-> [runs |-> 0, seen |-> 0]]
  /\ classify_calls = [a \in Accounts |-> [m \in MessageIds |-> 0]]

CtxIdle ==
  /\ ctx_config = [model_path |-> None, transformer_model |-> None]
  /\ ctx_env = [joblib |-> FALSE, model_file |-> "absent", transformers |-> FALSE,
                hub |-> FALSE]
  /\ ctx_pc = "start"
  /\ ctx_result = Return(None)
  /\ ctx_labels = Return(<<>>)

LiveIdle ==
  /\ unread = <<>>
  /\ limit = 1

MoreIdle == HistIdle /\ CtxIdle /\ LiveIdle

ExtIdle == RulesIdle /\ StatsIdle /\ MlIdle /\ MoreIdle

(***************************************************************************)
(* Canonicalization applied once and twice                                 *)
(***************************************************************************)
InitCanon ==
  /\ raw_labels \in BoundedSubsets(RawLabels, MaxSet)
  /\ canon_step = 0
  /\ canon_once = <<>>
  /\ canon_twice = <<>>
  /\ ClfIdle
  /\ AppIdle
  /\ ExtIdle

Canonicalize ==
  /\ canon_step = 0
  /\ canon_once' = _filter_allowed_labels(raw_labels)
  /\ canon_step' = 1
  /\ UNCHANGED <<raw_labels, canon_twice, clfVars, appVars, extVars>>

CanonicalizeAgain ==
  /\ canon_step = 1
  /\ canon_twice' = _filter_allowed_labels(Range(canon_once))
  /\ canon_step' = 2
  /\ UNCHANGED <<raw_labels, canon_once, clfVars, appVars, extVars>>

NextCanon == Canonicalize \/ CanonicalizeAgain

SpecCanon == InitCanon /\ [][NextCanon]_vars

(***************************************************************************)
(* One classifier classifying one message                                  *)
(***************************************************************************)
InitClassifier ==
  /\ clf \in Classifiers
  /\ clf_email \in Emails
  /\ clf_step = 0
  /\ clf_result = Return(<<>>)
  /\ CanonIdle
  /\ AppIdle
  /\ ExtIdle

Classify ==
  /\ clf_step = 0
  /\ clf_result' = classify(clf, clf_email)
  /\ clf_step' = 1
  /\ UNCHANGED <<clf, clf_email, canonVars, appVars, extVars>>

NextClassifier == Classify

SpecClassifier == InitClassifier /\ [][NextClassifier]_vars

(***************************************************************************)
(* The application: contexts, fetch runs and label runs (main.py)          *)
(***************************************************************************)
LedgerKeys(d) == {<<row.account, row.message_id>> : row \in d.rows}

\* a label run of process q is between its fetch and its return
Active(q) == run[q].pc \in {"loop", "ensure", "apply", "mark"}

Update(p, r) == run' = [run EXCEPT ![p] = r]

\* the exception of a failed call propagates out of the command
Abort(p) == Update(p, [run[p] EXCEPT !.pc = "aborted"])

\* the state before any process has run: no database, no statistics, no label
AppStart(procs, classifiers, names, budget) ==
  /\ db = NoDatabase
  /\ stats_file = EmptyDict
  /\ gmail = [a \in Accounts |-> EmptyMailbox(MessageIds)]
  /\ classifier \in classifiers
  /\ run = [p \in procs |-> NotRunning]
  /\ runs_left = budget
  /\ accounts = names
  /\ apply_calls = [a \in Accounts |-> [m \in MessageIds |-> 0]]
  /\ apply_returns = [a \in Accounts |-> [m \in MessageIds |-> 0]]
  /\ ensure_calls = [a \in Accounts |-> [m \in MessageIds |-> 0]]
  /\ marked = EmptyDict
  /\ last_query = NoQuery

InitWith(procs, classifiers, names, budget) ==
  /\ AppStart(procs, classifiers, names, budget)
  /\ CanonIdle
  /\ ClfIdle
  /\ ExtIdle

\* one process at a time: its commands run one after another
InitApp == InitWith({"p1"}, AppClassifiers, Accounts, MaxRuns)

\* two processes whose commands may overlap
InitOverlap ==
  InitWith(Procs, {EmailClassifier(RulesEngine(TestRules), None)}, {"acct1"},
           MaxOverlapRuns)

\* build_context: a new process opens the ledger and the statistics file
BuildContext(p) ==
  /\ run[p].pc \in {"exited", "done", "aborted"}
  /\ \E account \in accounts :
       Update(p, [NotRunning EXCEPT !.pc = "ready", !.account = account])
  /\ db' = ProcessedStore(db)
  /\ stats_file' = StatisticsService(stats_file)
  /\ UNCHANGED <<gmail, classifier, runs_left, accounts,
                 apply_calls, apply_returns, ensure_calls, marked,
                 last_query, canonVars, clfVars, extVars>>

\* _perform_fetch: fetch the unread messages and record the fetch
PerformFetch(p) ==
  /\ run[p].pc \in {"ready", "done"}
  /\ runs_left > 0
  /\ runs_left' = runs_left - 1
  /\ LET fresh == [NotRunning EXCEPT !.account = run[p].account]
     IN  \/ \E batch \in Batches :
              LET recorded == stats_record_fetch(stats_file, run[p].account,
                                                 Len(batch))
              IN  /\ stats_file' = recorded.file
                  /\ IF raised(recorded)
                     THEN /\ Update(p, [fresh EXCEPT !.pc = "aborted"])
                          /\ UNCHANGED fetched
                     ELSE /\ Update(p, [fresh EXCEPT !.pc = "ready"])
                          /\ fetched' = [fetched EXCEPT
                               ![run[p].account].runs = @ + 1,
                               ![run[p].account].seen = @ + Len(batch)]
         \/ \* fetch_unread_messages raises HttpError
            /\ Update(p, [fresh EXCEPT !.pc = "aborted"])
            /\ UNCHANGED <<stats_file, fetched>>
  /\ UNCHANGED <<db, gmail, classifier, accounts, apply_calls,
                 apply_returns, ensure_calls, marked, last_query, canonVars,
                 clfVars, rulesVars, statsVars, mlVars, classify_calls,
                 ctxVars, liveVars>>

\* variant: an empty batch is handled like any other
no_emails_never(emails) == FALSE

\* `if not emails`
no_emails(emails) == emails = <<>>

\* _perform_label up to the loop: fetch, return None on an empty batch
LabelStart(p) ==
  /\ run[p].pc \in {"ready", "done"}
  /\ runs_left > 0
  /\ runs_left' = runs_left - 1
  /\ \E dry_run \in BOOLEAN :
       LET fresh == [NotRunning EXCEPT !.account = run[p].account,
                                       !.dry_run = dry_run,
                                       !.ledger0 = LedgerKeys(db)]
       IN  \/ \E batch \in Batches :
                IF no_emails(batch)
                THEN Update(p, [fresh EXCEPT !.pc = "done", !.nothing = TRUE])
                ELSE Update(p, [fresh EXCEPT !.pc = "loop", !.emails = batch])
           \/ \* fetch_unread_messages raises HttpError
              Update(p, [fresh EXCEPT !.pc = "aborted"])
  /\ UNCHANGED <<db, stats_file, gmail, classifier, accounts, apply_calls,
                 apply_returns, ensure_calls, marked, last_query, canonVars,
                 clfVars, extVars>>

\* one iteration of `for email in emails` up to the gateway calls
LoopStep(p) ==
  LET r     == run[p]
      email == Mail(r.emails[r.idx])
  IN
  /\ r.pc = "loop"
  /\ r.idx <= Len(r.emails)
  /\ IF is_processed(db, r.account, email.id)
     THEN /\ Update(p, [r EXCEPT !.skipped = @ + 1, !.idx = @ + 1])
          /\ UNCHANGED classify_calls
     ELSE LET labels == classify(classifier, email)
              seen   == [r EXCEPT !.classified = @ \cup {email.id}]
          IN  /\ classify_calls' =
                   IF raised(labels) THEN classify_calls
                   ELSE [classify_calls EXCEPT ![r.account][email.id] =
                           IF @ < MaxRuns THEN @ + 1 ELSE @]
              /\ IF raised(labels)
                 THEN Update(p, [seen EXCEPT !.pc = "aborted"])
                 ELSE IF labels.value = <<>>
                 THEN Update(p, [seen EXCEPT !.idx = @ + 1])
                 ELSE IF r.dry_run
                 THEN Update(p, [seen EXCEPT
                        !.applied_labels = CountEach(@, labels.value),
                        !.idx = @ + 1])
                 ELSE Update(p, [seen EXCEPT !.pc = "ensure",
                                             !.labels = labels.value,
                                             !.lidx = 1, !.label_ids = <<>>])
  /\ UNCHANGED <<db, stats_file, gmail, classifier, runs_left, accounts,
                 apply_calls, apply_returns, ensure_calls, marked,
                 last_query, canonVars, clfVars, rulesVars, statsVars, mlVars,
                 fetched, ctxVars, liveVars>>

\* variant: the cache is never consulted
cached_never(label_cache, label) == FALSE

\* `label not in label_cache`, negated
cached(label_cache, label) == label \in DOMAIN label_cache

\* one iteration of `for label in labels`: the cache, else ensure_label
EnsureStep(p) ==
  LET r       == run[p]
      label   == r.labels[r.lidx]
      id      == r.emails[r.idx]
      next_pc == IF r.lidx = Len(r.labels) THEN "apply" ELSE "ensure"
  IN
  /\ r.pc = "ensure"
  /\ IF cached(r.label_cache, label)
     THEN /\ Update(p, [r EXCEPT !.label_ids = Append(@, r.label_cache[label]),
                                 !.lidx = @ + 1, !.pc = next_pc])
          /\ UNCHANGED <<gmail, ensure_calls>>
     ELSE /\ ensure_calls' = [ensure_calls EXCEPT ![r.account][id] = @ + 1]
          /\ \/ LET label_id == ensure_label_id(gmail[r.account], label)
                IN  /\ gmail' = [gmail EXCEPT ![r.account] = ensure_label(@, label)]
                    /\ Update(p, [r EXCEPT
                         !.label_cache = Put(@, label, label_id),
                         !.label_ids = Append(@, label_id),
                         !.ensured = Put(@, label, Get(@, label, 0) + 1),
                         !.lidx = @ + 1, !.pc = next_pc])
             \/ \* ensure_label raises HttpError
                /\ Update(p, [r EXCEPT
                         !.ensured = Put(@, label, Get(@, label, 0) + 1),
                         !.pc = "aborted"])
                /\ UNCHANGED gmail
  /\ UNCHANGED <<db, stats_file, classifier, runs_left, accounts,
                 apply_calls, apply_returns, marked, last_query, canonVars,
                 clfVars, extVars>>

\* app.gmail.apply_labels(email.id, label_ids)
ApplyStep(p) ==
  LET r  == run[p]
      id == r.emails[r.idx]
  IN
  /\ r.pc = "apply"
  /\ apply_calls' = [apply_calls EXCEPT ![r.account][id] = @ + 1]
  /\ \/ /\ gmail' = [gmail EXCEPT ![r.account] = apply_labels(@, id, r.label_ids)]
        /\ apply_returns' = [apply_returns EXCEPT ![r.account][id] = @ + 1]
        /\ Update(p, [r EXCEPT
               !.applies = Put(@, id, Append(Get(@, id, <<>>), r.label_ids)),
               !.pc = "mark"])
     \/ \* apply_labels raises HttpError
        /\ Update(p, [r EXCEPT
               !.applies = Put(@, id, Append(Get(@, id, <<>>), r.label_ids)),
               !.pc = "aborted"])
        /\ UNCHANGED <<gmail, apply_returns>>
  /\ UNCHANGED <<db, stats_file, classifier, runs_left, accounts,
                 ensure_calls, marked, last_query, canonVars, clfVars, extVars>>

\* datetime.utcnow(), read off a clock that ticks when a run starts
utcnow == MaxRuns - runs_left

\* mark_processed, then the counts of the message's labels
MarkStep(p) ==
  LET r  == run[p]
      id == r.emails[r.idx]
  IN
  /\ r.pc = "mark"
  /\ db' = mark_processed(db, r.account, id, utcnow)
  /\ marked' = Put(marked, <<r.account, id>>, Get(marked, <<r.account, id>>, 0) + 1)
  /\ Update(p, [r EXCEPT !.applied_labels = CountEach(@, r.labels),
                         !.idx = @ + 1, !.pc = "loop"])
  /\ UNCHANGED <<stats_file, gmail, classifier, runs_left, accounts,
                 apply_calls, apply_returns, ensure_calls, last_query,
                 canonVars, clfVars, extVars>>

\* variant: the batch is never recorded
should_record_never(applied_labels, dry_run) == FALSE

\* variant: the dry-run test is missing
should_record_always(applied_labels, dry_run) == DOMAIN applied_labels /= {}

\* `if applied_labels and not dry_run`
should_record(applied_labels, dry_run) == DOMAIN applied_labels /= {} /\ ~dry_run

\* after the loop: record the batch once, return (applied_labels, skipped)
Finish(p) ==
  LET r == run[p]
  IN
  /\ r.pc = "loop"
  /\ r.idx > Len(r.emails)
  /\ IF should_record(r.applied_labels, r.dry_run)
     THEN LET recorded == stats_record_label_application(stats_file, r.account,
                                                         r.applied_labels)
          IN  /\ stats_file' = recorded.file
              /\ IF raised(recorded) THEN Abort(p)
                 ELSE Update(p, [r EXCEPT !.pc = "done"])
     ELSE /\ UNCHANGED stats_file
          /\ Update(p, [r EXCEPT !.pc = "done"])
  /\ UNCHANGED <<db, gmail, classifier, runs_left, accounts, apply_calls,
                 apply_returns, ensure_calls, marked, last_query, canonVars,
                 clfVars, extVars>>

\* the steps of a run that is under way
RunStep(p) ==
  LoopStep(p) \/ EnsureStep(p) \/ ApplyStep(p) \/ MarkStep(p) \/ Finish(p)

Next ==
  \E p \in DOMAIN run :
    \/ BuildContext(p)
    \/ PerformFetch(p)
    \/ LabelStart(p)
    \/ RunStep(p)

\* the commands of one process, one after another
Spec == InitApp /\ [][Next]_vars

\* the label runs of two processes, interleaved step by step
NextOverlap ==
  \E p \in DOMAIN run :
    \/ BuildContext(p)
    \/ LabelStart(p)
    \/ RunStep(p)

SpecOverlap == InitOverlap /\ [][NextOverlap]_vars

(***************************************************************************)
(* Label runs invoked again and again on one mailbox                       *)
(***************************************************************************)
\* the unread messages of a mailbox, in the provider's order
Mailboxes == InjectiveSeqs(MessageIds, MaxUnread)

\* no program step removes the UNREAD label: `unread` never changes
InitLive ==
  /\ AppStart({"p1"}, {EmailClassifier(RulesEngine(TestRules), None)}, {"acct1"},
              MaxRuns)
  /\ unread \in Mailboxes
  /\ limit \in 1..MaxBatch
  /\ CanonIdle
  /\ ClfIdle
  /\ RulesIdle
  /\ StatsIdle
  /\ MlIdle
  /\ HistIdle
  /\ CtxIdle

\* _perform_label up to the loop, on the mailbox: the job of the scheduler
LabelUnread(p) ==
  /\ run[p].pc \in {"ready", "done"}
  /\ LET fresh == [NotRunning EXCEPT !.account = run[p].account,
                                     !.ledger0 = LedgerKeys(db)]
         batch == fetch_unread_messages(unread, limit)
     IN  IF no_emails(batch)
         THEN Update(p, [fresh EXCEPT !.pc = "done", !.nothing = TRUE])
         ELSE Update(p, [fresh EXCEPT !.pc = "loop", !.emails = batch])
  /\ UNCHANGED <<db, stats_file, gmail, classifier, runs_left, accounts,
                 apply_calls, apply_returns, ensure_calls, marked, last_query,
                 canonVars, clfVars, extVars>>

\* a step of a run in which no call fails
RunStepOk(p) == RunStep(p) /\ run'[p].pc /= "aborted"

NextLive ==
  \E p \in DOMAIN run :
    \/ BuildContext(p)
    \/ LabelUnread(p)
    \/ RunStepOk(p)

\* label runs keep being invoked, and a run under way goes on
SpecLive ==
  /\ InitLive
  /\ [][NextLive]_vars
  /\ WF_vars(\E p \in DOMAIN run : BuildContext(p))
  /\ SF_vars(\E p \in DOMAIN run : LabelUnread(p))
  /\ WF_vars(\E p \in DOMAIN run : RunStepOk(p))

(***************************************************************************)
(* The ledger on its own                                                   *)
(***************************************************************************)
InitLedger ==
  /\ db = ProcessedStore(NoDatabase)
  /\ stats_file = EmptyDict
  /\ gmail = [a \in Accounts |-> EmptyMailbox(MessageIds)]
  /\ classifier = EmailClassifier(RulesEngine(<<>>), None)
  /\ run = [p \in {"p1"} |-> NotRunning]
  /\ runs_left = 0
  /\ accounts = Accounts
  /\ apply_calls = [a \in Accounts |-> [m \in MessageIds |-> 0]]
  /\ apply_returns = [a \in Accounts |-> [m \in MessageIds |-> 0]]
  /\ ensure_calls = [a \in Accounts |-> [m \in MessageIds |-> 0]]
  /\ marked = EmptyDict
  /\ last_query = NoQuery
  /\ CanonIdle
  /\ ClfIdle
  /\ ExtIdle

\* the number of calls a history of calls holds
RECURSIVE Total(_)
Total(calls) ==
  IF DOMAIN calls = {} THEN 0
  ELSE LET k == CHOOSE k \in DOMAIN calls : TRUE
       IN  calls[k] + Total([x \in (DOMAIN calls) \ {k} |-> calls[x]])

MarkProcessed(account, message_id) ==
  /\ Total(marked) < MaxMarks
  /\ \E timestamp \in Timestamps :
       db' = mark_processed(db, account, message_id, timestamp)
  /\ marked' = Put(marked, <<account, message_id>>,
                   Get(marked, <<account, message_id>>, 0) + 1)
  /\ UNCHANGED <<stats_file, gmail, classifier, run, runs_left, accounts,
                 apply_calls, apply_returns, ensure_calls, last_query,
                 canonVars, clfVars, extVars>>

IsProcessed(account, message_id) ==
  /\ last_query' = [account |-> account, message_id |-> message_id,
                    result |-> is_processed(db, account, message_id),
                    asked |-> TRUE]
  /\ UNCHANGED <<db, stats_file, gmail, classifier, run, runs_left,
                 accounts, apply_calls, apply_returns, ensure_calls, marked,
                 canonVars, clfVars, extVars>>

\* a new ProcessedStore is constructed on the same database
OpenStore ==
  /\ db' = ProcessedStore(db)
  /\ UNCHANGED <<stats_file, gmail, classifier, run, runs_left, accounts,
                 apply_calls, apply_returns, ensure_calls, marked,
                 last_query, canonVars, clfVars, extVars>>

NextLedger ==
  \/ \E account \in Accounts, message_id \in MessageIds :
       MarkProcessed(account, message_id)
  \/ \E account \in Accounts, message_id \in MessageIds :
       IsProcessed(account, message_id)
  \/ OpenStore

SpecLedger == InitLedger /\ [][NextLedger]_vars

(***************************************************************************)
(* The statistics service on its own                                       *)
(***************************************************************************)
InitStats ==
  /\ db = NoDatabase
  /\ stats_file = StatisticsService(BlankText)
  /\ gmail = [a \in Accounts |-> EmptyMailbox(MessageIds)]
  /\ classifier = EmailClassifier(RulesEngine(<<>>), None)
  /\ run = [p \in {"p1"} |-> NotRunning]
  /\ runs_left = 0
  /\ accounts = Accounts
  /\ apply_calls = [a \in Accounts |-> [m \in MessageIds |-> 0]]
  /\ apply_returns = [a \in Accounts |-> [m \in MessageIds |-> 0]]
  /\ ensure_calls = [a \in Accounts |-> [m \in MessageIds |-> 0]]
  /\ marked = EmptyDict
  /\ last_query = NoQuery
  /\ stats_log = <<>>
  /\ CanonIdle
  /\ ClfIdle
  /\ RulesIdle
  /\ MlIdle
  /\ MoreIdle

\* the entry of the history for a call or an overwrite
Logged(op, account, count, label_counts, outcome) ==
  [op |-> op, account |-> account, count |-> count,
   label_counts |-> label_counts, exc |-> outcome.exc, value |-> outcome.value,
   before |-> stats_file, after |-> outcome.file]

\* the file and the history after a call or an overwrite
StatsStep(op, account, count, label_counts, outcome) ==
  /\ Len(stats_log) < MaxCalls
  /\ stats_file' = outcome.file
  /\ stats_log' = Append(stats_log, Logged(op, account, count, label_counts, outcome))
  /\ UNCHANGED <<db, gmail, classifier, run, runs_left, accounts, apply_calls,
                 apply_returns, ensure_calls, marked, last_query, canonVars,
                 clfVars, rulesVars, mlVars, moreVars>>

RecordFetch(account, count) ==
  StatsStep("record_fetch", account, count, EmptyDict,
            stats_record_fetch(stats_file, account, count))

RecordLabelApplication(account, label_counts) ==
  StatsStep("record_label_application", account, 0, label_counts,
            stats_record_label_application(stats_file, account, label_counts))

Snapshot ==
  StatsStep("snapshot", "acct1", 0, EmptyDict, stats_snapshot(stats_file))

\* a new StatisticsService is constructed on the same file
OpenStats ==
  StatsStep("__init__", "acct1", 0, EmptyDict,
            Outcome("", None, StatisticsService(stats_file)))

\* the file is overwritten from outside the service
Overwrite(text) ==
  /\ "undecodable" \notin DOMAIN stats_file
  /\ "kind" \notin DOMAIN stats_file
  /\ StatsStep("overwrite", "acct1", 0, EmptyDict, Outcome("", None, text))

NextStats ==
  \/ \E account \in Accounts, count \in 0..MaxCount : RecordFetch(account, count)
  \/ \E account \in Accounts, label_counts \in LabelCounts :
       RecordLabelApplication(account, label_counts)
  \/ Snapshot
  \/ OpenStats
  \/ \E text \in CorruptTexts : Overwrite(text)

SpecStats == InitStats /\ [][NextStats]_vars

(***************************************************************************)
(* The classifier of a context (services/ml_classifier.py, build_context)  *)
(***************************************************************************)
\* the truth value of an object: None and "" are falsy, a Path, a pipeline
\* and an MLClassifier are truthy
bool(v) ==
  IF v.kind = "NoneType" THEN FALSE
  ELSE IF v.kind = "str" THEN v.str /= <<>>
  ELSE TRUE

\* the model path of the configuration, when ML_MODEL_PATH is set
ModelPath == [kind |-> "Path"]

\* a pipeline of the transformers library
TransformerPipeline == [kind |-> "TransformersPipeline"]

\* _load_sklearn_pipeline: the value left in self._sklearn_pipeline
_load_sklearn_pipeline(env) ==
  IF ~env.joblib THEN Raise("RuntimeError")
  ELSE IF env.model_file = "absent" THEN Return(None)
  ELSE IF env.model_file = "broken" THEN Raise("UnpicklingError")
  ELSE Return(Pipeline(Work, FALSE))

\* _load_transformer_pipeline: the value left in self._transformer_pipeline
_load_transformer_pipeline(env) ==
  IF ~env.transformers THEN Raise("RuntimeError")
  ELSE IF ~env.hub THEN Raise("OSError")
  ELSE Return(TransformerPipeline)

\* MLClassifier(model_path=..., transformer_model=...)
MLClassifier__init__(model_path, transformer_model, env) ==
  IF bool(model_path)
  THEN LET loaded == _load_sklearn_pipeline(env)
       IN  IF raised(loaded) THEN loaded
           ELSE Return([kind |-> "MLClassifier", sklearn_pipeline |-> loaded.value,
                        transformer_pipeline |-> None])
  ELSE IF bool(transformer_model)
  THEN LET loaded == _load_transformer_pipeline(env)
       IN  IF raised(loaded) THEN loaded
           ELSE Return([kind |-> "MLClassifier", sklearn_pipeline |-> None,
                        transformer_pipeline |-> loaded.value])
  ELSE Return(MLClassifier(None))

\* MLClassifier.from_config
from_config(config, env) ==
  IF ~bool(config.model_path) /\ ~bool(config.transformer_model) THEN Return(None)
  ELSE MLClassifier__init__(config.model_path, config.transformer_model, env)

\* build_context, from the rules engine to the classifier
build_classifier(config, env) ==
  LET rules_eng  == RulesEngine(TestRules)
      strategies == <<RuleBasedStrategy(rules_eng)>>
      built      == from_config(config, env)
  IN  IF raised(built) THEN built
      ELSE LET ml_classifier == built.value
               all == IF bool(ml_classifier) /\ is_ready(ml_classifier)
                      THEN Append(strategies, MLStrategy(ml_classifier))
                      ELSE strategies
           IN  Return([strategies |-> all, ml_classifier |-> ml_classifier,
                       classifier |-> EmailClassifier(List(all), None)])

\* the predictor settings: ML_MODEL_PATH and TRANSFORMER_MODEL_NAME, unset,
\* empty or set
Configs ==
  [model_path : {None, ModelPath},
   transformer_model : {None, Str(<<>>), Str(<<"m">>)}]

\* what the installation offers: the joblib and transformers packages, the
\* model file (absent, loadable, or not a model), the model hub
Environments ==
  [joblib : BOOLEAN, model_file : {"absent", "loadable", "broken"},
   transformers : BOOLEAN, hub : BOOLEAN]

InitContext ==
  /\ ctx_config \in Configs
  /\ ctx_env \in Environments
  /\ ctx_pc = "start"
  /\ ctx_result = Return(None)
  /\ ctx_labels = Return(<<>>)
  /\ CanonIdle
  /\ ClfIdle
  /\ AppIdle
  /\ RulesIdle
  /\ StatsIdle
  /\ MlIdle
  /\ HistIdle
  /\ LiveIdle

\* build_context up to EmailClassifier(strategies)
BuildClassifier ==
  /\ ctx_pc = "start"
  /\ ctx_result' = build_classifier(ctx_config, ctx_env)
  /\ ctx_pc' = IF raised(ctx_result') THEN "failed" ELSE "built"
  /\ UNCHANGED <<ctx_config, ctx_env, ctx_labels, canonVars, clfVars, appVars,
                 rulesVars, statsVars, mlVars, histVars, liveVars>>

\* app.classifier.classify(email)
ClassifyBuilt ==
  /\ ctx_pc = "built"
  /\ \E email \in RuleEmails :
       ctx_labels' = classify(ctx_result.value.classifier, email)
  /\ ctx_pc' = "classified"
  /\ UNCHANGED <<ctx_config, ctx_env, ctx_result, canonVars, clfVars, appVars,
                 rulesVars, statsVars, mlVars, histVars, liveVars>>

NextContext == BuildClassifier \/ ClassifyBuilt

SpecContext == InitContext /\ [][NextContext]_vars

(***************************************************************************)
(* The predictor on its own                                                *)
(***************************************************************************)
InitPredictor ==
  /\ ml \in Predictors
  /\ ml_email \in Emails
  /\ ml_call = NoCall
  /\ CanonIdle
  /\ ClfIdle
  /\ AppIdle
  /\ RulesIdle
  /\ StatsIdle
  /\ MoreIdle

Called(op, outcome) ==
  /\ ml_call' = [op |-> op, exc |-> outcome.exc, value |-> outcome.value]
  /\ UNCHANGED <<ml, ml_email, canonVars, clfVars, appVars, rulesVars, statsVars,
                 moreVars>>

\* ml.predict(text), on the text of the message or on an empty text
Predict == \E text \in {text_of(ml_email), <<>>} : Called("predict", predict(ml, text))

\* MLStrategy(ml).labels_for(email)
LabelsFor == Called("labels_for", labels_for(MLStrategy(ml), ml_email))

\* EmailClassifier(rules_engine, ml)._ml_prediction(email)
MlPrediction ==
  Called("_ml_prediction",
         Return(_ml_prediction(EmailClassifier(RulesEngine(<<>>), ml), ml_email)))

NextPredictor == Predict \/ LabelsFor \/ MlPrediction

SpecPredictor == InitPredictor /\ [][NextPredictor]_vars

(***************************************************************************)
(* The rules engine on its own: load the rules file, match a message       *)
(***************************************************************************)
InitRules ==
  /\ rules_file \in RulesFiles
  /\ rules_engine = None
  /\ rules_email \in RuleEmails
  /\ rules_pc = "start"
  /\ rules_result = Return(<<>>)
  /\ CanonIdle
  /\ ClfIdle
  /\ AppIdle
  /\ StatsIdle
  /\ MlIdle
  /\ MoreIdle

\* RulesEngine(rules_file): the constructor calls reload
LoadRules ==
  /\ rules_pc = "start"
  /\ LET loaded == reload(rules_file)
     IN  /\ rules_result' = loaded
         /\ IF raised(loaded)
            THEN /\ rules_pc' = "failed"
                 /\ UNCHANGED rules_engine
            ELSE /\ rules_pc' = "loaded"
                 /\ rules_engine' = RulesEngine(loaded.value)
  /\ UNCHANGED <<rules_file, rules_email, canonVars, clfVars, appVars,
                 statsVars, mlVars, moreVars>>

\* rules_engine.match(email)
MatchRules ==
  /\ rules_pc = "loaded"
  /\ rules_result' = Return(match(rules_engine.rules, rules_email))
  /\ rules_pc' = "matched"
  /\ UNCHANGED <<rules_file, rules_engine, rules_email, canonVars, clfVars,
                 appVars, statsVars, mlVars, moreVars>>

NextRules == LoadRules \/ MatchRules

SpecRules == InitRules /\ [][NextRules]_vars

(***************************************************************************)
(* A rules engine that is reloaded after its file has changed              *)
(***************************************************************************)
\* the rule definitions the file is rewritten with: the two of
\* tests/test_rules_engine.py and one that lacks its label
ReloadItems ==
  { [label |-> Work, keywords |-> <<project>>, priority |-> 2],
    [label |-> Finance, keywords |-> <<Invoice>>, priority |-> 5],
    [keywords |-> <<project>>] }

\* what the file may hold before and after it is rewritten
ReloadFiles ==
  {NoFile, TextFile(GarbageText), TextFile(BlankText), TextFile(List(<<>>)),
   TextFile(<<>>)}
    \cup {TextFile([rules |-> items]) :
            items \in SeqsUpTo(ReloadItems, MaxRules - 1)}

InitReload ==
  /\ rules_file \in ReloadFiles
  /\ rules_engine = None
  /\ rules_email \in RuleEmails
  /\ rules_pc = "start"
  /\ rules_result = Return(<<>>)
  /\ CanonIdle
  /\ ClfIdle
  /\ AppIdle
  /\ StatsIdle
  /\ MlIdle
  /\ MoreIdle

\* the file at self.rules_file is replaced or removed while the engine lives
RewriteRules ==
  /\ rules_pc \in {"loaded", "matched"}
  /\ rules_file' \in ReloadFiles \ {rules_file}
  /\ rules_pc' = "rewritten"
  /\ UNCHANGED <<rules_engine, rules_email, rules_result, canonVars, clfVars,
                 appVars, statsVars, mlVars, moreVars>>

\* rules_engine.reload() on the engine constructed before; the caller goes
\* on with the same engine whether or not the call raised
ReloadRules ==
  /\ rules_pc = "rewritten"
  /\ LET loaded == reload(rules_file)
     IN  /\ rules_result' = loaded
         /\ rules_engine' = RulesEngine(_rules_assigned(rules_engine.rules, loaded))
  /\ rules_pc' = "loaded"
  /\ UNCHANGED <<rules_file, rules_email, canonVars, clfVars, appVars,
                 statsVars, mlVars, moreVars>>

NextReload == LoadRules \/ MatchRules \/ RewriteRules \/ ReloadRules

SpecReload == InitReload /\ [][NextReload]_vars

(***************************************************************************)
(* Properties of the canonicalization                                      *)
(***************************************************************************)
\* t is l without its surrounding whitespace
IsTrimOf(t, l) ==
  \E i \in 1..(Len(l) + 1), j \in 0..Len(l) :
    /\ t = SubSeq(l, i, j)
    /\ \A k \in 1..Len(l) : (k < i \/ k > j) => l[k] \in Whitespace
    /\ t /= <<>> => (t[1] \notin Whitespace /\ t[Len(t)] \notin Whitespace)

Trimmed(l) ==
  CHOOSE t \in {SubSeq(l, i, j) : i \in 1..(Len(l) + 1), j \in 0..Len(l)} : IsTrimOf(t, l)

WellKnown == {Work, Personal, Finance, Promotions, Spam}

\* the canonical form the specification gives to a label that is not blank
CanonicalForm(l) ==
  LET t == Trimmed(l)
  IN  IF \E w \in WellKnown : lower(w) = lower(t)
      THEN CHOOSE w \in WellKnown : lower(w) = lower(t)
      ELSE t

\* C9: the canonicalized set holds, for every produced label that is not
\* blank after trimming, the well-known label it matches case-insensitively,
\* or else its trimmed form with the casing kept; blank labels are dropped.
C9_Canonicalization ==
  canon_step >= 1 =>
    Range(canon_once) = {CanonicalForm(l) : l \in {r \in raw_labels : Trimmed(r) /= <<>>}}

\* a padded well-known label in another casing, a blank label and a label
\* outside the vocabulary with an upper-case letter were canonicalized
C9_Witness ==
  /\ canon_step >= 1
  /\ \E l \in raw_labels : Trimmed(l) /= l /\ Trimmed(l) /= Work /\ lower(Trimmed(l)) = lower(Work)
  /\ \E l \in raw_labels : l /= <<>> /\ Trimmed(l) = <<>>
  /\ \E l \in raw_labels : lower(Trimmed(l)) = lower(Ok) /\ Trimmed(l) /= lower(Ok)

\* C10: canonicalizing the canonicalized labels changes nothing, and "work",
\* "WORK" and "Work" together canonicalize to the single label "Work".
C10_Idempotent ==
  /\ canon_step = 2 => Range(canon_twice) = Range(canon_once)
  /\ (canon_step >= 1 /\ raw_labels = {lower(Work), upper(Work), Work})
       => canon_once = <<Work>>

\* the three casings of "Work" were canonicalized twice
C10_Witness ==
  /\ canon_step = 2
  /\ raw_labels = {lower(Work), upper(Work), Work}

\* padded labels in other casings were canonicalized twice
C10_WitnessPadded ==
  /\ canon_step = 2
  /\ \E l \in raw_labels : Trimmed(l) /= l /\ CanonicalForm(l) /= Trimmed(l)
  /\ Cardinality(raw_labels) = MaxSet

(***************************************************************************)
(* Properties of classify                                                  *)
(***************************************************************************)
\* the strategies a classifier built from a list holds
StrategiesOf(c) == Range(c.rules_engine.items)

\* the labels of the strategies of c that do not raise on the message
ProducedLabels(c, email) ==
  UNION {Range(labels_for(st, email).value) :
           st \in {x \in StrategiesOf(c) : ~raised(labels_for(x, email))}}

\* C8: a classifier built from a list of strategies, none of which raises,
\* returns the (canonicalized) union of the strategies' labels.
C8_MergesStrategies ==
  (/\ clf_step = 1
   /\ clf.rules_engine.kind = "list"
   /\ \A st \in StrategiesOf(clf) : ~raised(labels_for(st, clf_email)))
    => /\ ~raised(clf_result)
       /\ Range(clf_result.value)
            = Range(_filter_allowed_labels(ProducedLabels(clf, clf_email)))

\* C7: when a strategy of the list raises, classify does not raise and
\* returns the labels of the remaining strategies.
C7_StrategyIsolation ==
  (/\ clf_step = 1
   /\ clf.rules_engine.kind = "list"
   /\ \E st \in StrategiesOf(clf) : raised(labels_for(st, clf_email)))
    => /\ ~raised(clf_result)
       /\ Range(clf_result.value)
            = Range(_filter_allowed_labels(ProducedLabels(clf, clf_email)))

\* a comes before b in code point order (a proper prefix comes first)
LexLess(a, b) ==
  \E k \in 1..(Len(b)) :
    /\ k <= Len(a) + 1
    /\ \A i \in 1..(k - 1) : a[i] = b[i]
    /\ k = Len(a) + 1 \/ Ord(a[k]) < Ord(b[k])

\* the sequences that hold the elements of s in another order
Reordered(s) ==
  {[i \in 1..Len(s) |-> s[f[i]]] : f \in Permutations(1..Len(s))}

FoundIn(kw, text) ==
  \E i \in 0..(Len(text) - Len(kw)) :
    \A j \in 1..Len(kw) : lower_char(kw[j]) = lower_char(text[i + j])

\* the condition under which the specification lets a rule match
Matches(rule, email) ==
  \/ rule.match_subject
       /\ \E k \in DOMAIN rule.keywords : FoundIn(rule.keywords[k], email.subject)
  \/ rule.match_body
       /\ \E k \in DOMAIN rule.keywords : FoundIn(rule.keywords[k], email.body)

\* the rules that match, by their position in the configuration
Matching(rules, email) == {i \in DOMAIN rules : Matches(rules[i], email)}

\* the place of matching rule i in the result: behind the matching rules of
\* higher priority and those of its own priority defined before it
Place(rules, email, i) ==
  1 + Cardinality({j \in Matching(rules, email) :
                     \/ rules[j].priority > rules[i].priority
                     \/ rules[j].priority = rules[i].priority /\ j < i})

\* C12: match returns the labels of the matching rules by non-increasing
\* priority, rules of equal priority in the order of their definition; the
\* rules [Work 2, Finance 5] on subject "Invoice for project" give
\* ["Finance", "Work"].
C12_PriorityOrder ==
  rules_pc = "matched" =>
    LET rules  == rules_engine.rules
        result == rules_result.value
    IN  /\ Len(result) = Cardinality(Matching(rules, rules_email))
        /\ \A i \in Matching(rules, rules_email) :
             result[Place(rules, rules_email, i)] = rules[i].label
        /\ (rules = TestRules
              /\ rules_email.subject = Invoice \o Sp \o for \o Sp \o project)
             => result = <<Finance, Work>>

\* two matching rules of equal priority were defined in an order that is not
\* the alphabetical one, behind a matching rule of lower priority
C12_Witness ==
  /\ rules_pc = "matched"
  /\ rules_result.value = <<Work, Personal, Ok>>
  /\ rules_engine.rules[1].label = Ok

\* C13: a rule contributes its label exactly when match_subject holds and a
\* keyword occurs in the subject, or match_body holds and a keyword occurs
\* in the body, the case of the letters ignored: each label is in the
\* result once for every rule with that label that matches.
C13_MatchCondition ==
  rules_pc = "matched" =>
    LET rules  == rules_engine.rules
        result == rules_result.value
    IN  /\ \A k \in DOMAIN result : \E i \in DOMAIN rules : rules[i].label = result[k]
        /\ \A i \in DOMAIN rules :
             Cardinality({k \in DOMAIN result : result[k] = rules[i].label})
               = Cardinality({j \in DOMAIN rules :
                                /\ rules[j].label = rules[i].label
                                /\ Matches(rules[j], rules_email)})
        /\ (rules_email.body = this \o Sp \o is \o Sp \o an \o Sp \o lower(Invoice)
              /\ \E i \in DOMAIN rules :
                   rules[i].label = Finance /\ rules[i].keywords = <<Invoice>>)
             => \E k \in DOMAIN result : result[k] = Finance

\* on subject "Invoice for project" with an empty body, a rule for the body
\* only with keyword "Invoice" and a rule without keywords did not match,
\* while the rule with keyword "PROJECT" matched
C13_Witness ==
  /\ rules_pc = "matched"
  /\ rules_email = EmailMessage("1", Invoice \o Sp \o for \o Sp \o project, <<>>)
  /\ {rules_engine.rules[i].label : i \in DOMAIN rules_engine.rules}
       = {Ok, Spam, Personal}
  /\ rules_result.value = <<Personal>>

\* C20: when the rules file is absent, is not parseable, or holds a rule
\* definition without "label", loading fails with ConfigurationError.
C20_ConfigurationError ==
  (rules_pc /= "start"
     /\ \/ ~rules_file.exists
        \/ "undecodable" \in DOMAIN rules_file.json
        \/ /\ "rules" \in DOMAIN rules_file.json
           /\ \E i \in DOMAIN rules_file.json["rules"] :
                "label" \notin DOMAIN rules_file.json["rules"][i])
    => /\ rules_pc = "failed"
       /\ rules_result.exc = "ConfigurationError"

(***************************************************************************)
(* Properties of the statistics                                            *)
(***************************************************************************)
\* the file holds a mapping of counters (a JSON object)
IsCounters(file) == "undecodable" \notin DOMAIN file /\ "kind" \notin DOMAIN file

\* the counters a file holds; a file that holds no mapping holds none
GlobalCounter(file, name) == IF IsCounters(file) THEN Get(file, name, 0) ELSE 0

GlobalTally(file, label) ==
  IF IsCounters(file) THEN Get(Get(file, "labels", EmptyDict), label, 0) ELSE 0

Bucket(file, account) ==
  IF IsCounters(file)
  THEN Get(Get(file, "accounts", EmptyDict), account, EmptyDict) ELSE EmptyDict

BucketCounter(file, account, name) == Get(Bucket(file, account), name, 0)

BucketTally(file, account, label) ==
  Get(Get(Bucket(file, account), "labels", EmptyDict), label, 0)

CounterNames == {"fetch_runs", "emails_seen", "label_runs"}

\* the labels the label runs count, and one they never count
TallyLabels == UNION {DOMAIN label_counts : label_counts \in LabelCounts} \cup {Spam}

\* the calls record_fetch(account, _) of the history
FetchesOf(account) ==
  {i \in DOMAIN stats_log :
     stats_log[i].op = "record_fetch" /\ stats_log[i].account = account}

\* the sum of the counts of the calls I
RECURSIVE SeenBy(_)
SeenBy(I) ==
  IF I = {} THEN 0
  ELSE LET i == CHOOSE i \in I : TRUE
       IN  stats_log[i].count + SeenBy(I \ {i})

\* the file was changed by the service alone
NeverOverwritten == \A i \in DOMAIN stats_log : stats_log[i].op /= "overwrite"

\* C14: from an empty document, after the calls record_fetch(acct, c_i) the
\* bucket of acct has fetch_runs = their number and emails_seen = the sum of
\* the c_i, the global counters are these numbers summed over the accounts
\* (for calls of one account: the same numbers), and a call leaves the
\* buckets of the other accounts as they are.
C14_FetchTotals ==
  NeverOverwritten =>
    /\ \A a \in Accounts :
         /\ BucketCounter(stats_file, a, "fetch_runs") = Cardinality(FetchesOf(a))
         /\ BucketCounter(stats_file, a, "emails_seen") = SeenBy(FetchesOf(a))
    /\ GlobalCounter(stats_file, "fetch_runs")
         = Cardinality(UNION {FetchesOf(a) : a \in Accounts})
    /\ GlobalCounter(stats_file, "emails_seen")
         = SeenBy(UNION {FetchesOf(a) : a \in Accounts})
    /\ \A i \in DOMAIN stats_log :
         stats_log[i].op = "record_fetch" =>
           \A b \in Accounts \ {stats_log[i].account} :
             Bucket(stats_log[i].after, b) = Bucket(stats_log[i].before, b)

\* MaxCalls calls record_fetch were made for one account, with counts that
\* are not all the same
C14_Witness ==
  /\ Len(stats_log) = MaxCalls
  /\ FetchesOf("acct1") = DOMAIN stats_log
  /\ stats_log[1].count /= stats_log[2].count
  /\ GlobalCounter(stats_file, "emails_seen") > MaxCount

\* C15: a call record_label_application(account, label_counts) that returns
\* adds 1 to the global and to the account's label_runs, adds
\* label_counts[L] to the global and to the account's tally of every label
\* L, and leaves fetch_runs, emails_seen, the other tallies and the buckets
\* of the other accounts as they are (an unparseable document counts as
\* empty).
C15_LabelApplicationEffect ==
  \A i \in DOMAIN stats_log :
    (stats_log[i].op = "record_label_application" /\ stats_log[i].exc = "") =>
      LET e == stats_log[i]
      IN  /\ GlobalCounter(e.after, "label_runs")
               = GlobalCounter(e.before, "label_runs") + 1
          /\ BucketCounter(e.after, e.account, "label_runs")
               = BucketCounter(e.before, e.account, "label_runs") + 1
          /\ \A l \in TallyLabels :
               /\ GlobalTally(e.after, l)
                    = GlobalTally(e.before, l) + Get(e.label_counts, l, 0)
               /\ BucketTally(e.after, e.account, l)
                    = BucketTally(e.before, e.account, l) + Get(e.label_counts, l, 0)
          /\ \A name \in {"fetch_runs", "emails_seen"} :
               /\ GlobalCounter(e.after, name) = GlobalCounter(e.before, name)
               /\ BucketCounter(e.after, e.account, name)
                    = BucketCounter(e.before, e.account, name)
          /\ \A b \in Accounts \ {e.account} :
               Bucket(e.after, b) = Bucket(e.before, b)

\* label counts for two labels were recorded for an account on a document
\* that held a fetch of that account and a label run of another account
C15_Witness ==
  /\ Len(stats_log) = 3
  /\ stats_log[3].op = "record_label_application"
  /\ Cardinality(DOMAIN stats_log[3].label_counts) = 2
  /\ BucketCounter(stats_log[3].before, stats_log[3].account, "emails_seen") > 0
  /\ \E b \in Accounts \ {stats_log[3].account}, l \in TallyLabels :
       BucketTally(stats_log[3].before, b, l) > 0

\* the sum of a counter, and of a tally, over the buckets of the accounts S
RECURSIVE BucketSum(_, _, _)
BucketSum(file, name, S) ==
  IF S = {} THEN 0
  ELSE LET a == CHOOSE a \in S : TRUE
       IN  BucketCounter(file, a, name) + BucketSum(file, name, S \ {a})

RECURSIVE TallySum(_, _, _)
TallySum(file, label, S) ==
  IF S = {} THEN 0
  ELSE LET a == CHOOSE a \in S : TRUE
       IN  BucketTally(file, a, label) + TallySum(file, label, S \ {a})

\* C16: in every state of the document, each counter and each label tally
\* summed over the buckets of the accounts is at most the global one.
C16_BucketsWithinGlobal ==
  /\ \A name \in CounterNames :
       BucketSum(stats_file, name, Accounts) <= GlobalCounter(stats_file, name)
  /\ \A l \in TallyLabels :
       TallySum(stats_file, l, Accounts) <= GlobalTally(stats_file, l)

\* both accounts have a bucket, one with fetched messages and one with a
\* label tally
C16_Witness ==
  /\ BucketCounter(stats_file, "acct1", "emails_seen") > 0
  /\ BucketCounter(stats_file, "other", "emails_seen") > 0
  /\ \E a \in Accounts : BucketTally(stats_file, a, Finance) > 0

\* every counter of file2 is at least the one of file1
Dominates(file2, file1) ==
  /\ \A name \in CounterNames :
       /\ GlobalCounter(file2, name) >= GlobalCounter(file1, name)
       /\ \A a \in Accounts :
            BucketCounter(file2, a, name) >= BucketCounter(file1, a, name)
  /\ \A l \in TallyLabels :
       /\ GlobalTally(file2, l) >= GlobalTally(file1, l)
       /\ \A a \in Accounts : BucketTally(file2, a, l) >= BucketTally(file1, a, l)

ServiceOps == {"record_fetch", "record_label_application", "snapshot", "__init__"}

\* C17 as stated: no operation of the service, also on a document that has
\* become unreadable, leaves a counter smaller than it was in an earlier
\* state.
C17_NeverDecreases ==
  \A j \in DOMAIN stats_log :
    stats_log[j].op \in ServiceOps =>
      \A i \in 1..(j - 1) : Dominates(stats_log[j].after, stats_log[i].after)

\* C17 as amended: the counters never decrease while the file is changed by
\* the service alone, and no operation on a readable document decreases
\* one; an operation that reads an unparseable document starts again from
\* the empty one, and a document that parses to something else than a
\* mapping is left as it is.
C17_MonotoneWhileReadable ==
  /\ NeverOverwritten =>
       \A j \in DOMAIN stats_log :
         \A i \in 1..(j - 1) : Dominates(stats_log[j].after, stats_log[i].after)
  /\ \A j \in DOMAIN stats_log :
       (stats_log[j].op \in ServiceOps /\ IsCounters(stats_log[j].before))
         => Dominates(stats_log[j].after, stats_log[j].before)
  /\ \A j \in DOMAIN stats_log :
       (stats_log[j].op \in ServiceOps \ {"__init__"}
          /\ "undecodable" \in DOMAIN stats_log[j].before)
         => /\ IsCounters(stats_log[j].after)
            /\ GlobalCounter(stats_log[j].after, "fetch_runs")
                 = (IF stats_log[j].op = "record_fetch" THEN 1 ELSE 0)
            /\ GlobalCounter(stats_log[j].after, "emails_seen") = stats_log[j].count
            /\ GlobalCounter(stats_log[j].after, "label_runs")
                 = (IF stats_log[j].op = "record_label_application" THEN 1 ELSE 0)
  /\ \A j \in DOMAIN stats_log :
       (stats_log[j].op \in ServiceOps /\ "kind" \in DOMAIN stats_log[j].before)
         => stats_log[j].after = stats_log[j].before

\* a fetch was recorded on a document that had become unparseable after it
\* held a larger count
C17_Witness ==
  /\ Len(stats_log) = 3
  /\ stats_log[2].op = "overwrite"
  /\ "undecodable" \in DOMAIN stats_log[2].after
  /\ stats_log[3].op = "record_fetch"
  /\ GlobalCounter(stats_log[3].after, "emails_seen")
       < GlobalCounter(stats_log[1].after, "emails_seen")

\* C18: on a corrupt document (unparseable, or parseable but not the
\* counter mapping) record_fetch, record_label_application and snapshot do
\* not raise, reset the document to empty and proceed on the empty state.
C18_CorruptionAbsorbed ==
  \A j \in DOMAIN stats_log :
    (stats_log[j].op \in ServiceOps \ {"__init__"}
       /\ ~IsCounters(stats_log[j].before))
      => /\ stats_log[j].exc = ""
         /\ IsCounters(stats_log[j].after)
         /\ Dominates(stats_log[j].after, EmptyDict)
         /\ stats_log[j].op = "snapshot" =>
              (stats_log[j].after = EmptyDict /\ stats_log[j].value = EmptyDict)

(***************************************************************************)
(* Properties of the predictor                                             *)
(***************************************************************************)
\* C19: predict, and labels_for of the strategy built on it, never raise:
\* when the model raises they return no prediction, and labels_for yields
\* at most one label.
C19_PredictNeverThrows ==
  /\ ml_call.op \in {"predict", "labels_for"} => ml_call.exc = ""
  /\ (ml_call.op = "labels_for" /\ ml_call.exc = "") => Len(ml_call.value) <= 1

(***************************************************************************)
(* Properties of the ledger                                                *)
(***************************************************************************)
\* C5: is_processed(a, m) is true exactly when mark_processed(a, m) was
\* called before with that account and that id, however often it was called
\* and whatever was marked for other accounts.
C5_LedgerRoundTrip ==
  /\ \A a \in Accounts, m \in MessageIds :
       is_processed(db, a, m) <=> <<a, m>> \in DOMAIN marked
  /\ last_query.asked /\ last_query.result
       => <<last_query.account, last_query.message_id>> \in DOMAIN marked

\* a pair was marked twice and is processed, the same id is not processed for
\* the other account, and is_processed was asked about the pair
C5_Witness ==
  \E a \in Accounts, m \in MessageIds :
    /\ Get(marked, <<a, m>>, 0) = 2
    /\ is_processed(db, a, m)
    /\ \E a2 \in Accounts \ {a} : ~is_processed(db, a2, m)
    /\ last_query = [account |-> a, message_id |-> m, result |-> TRUE, asked |-> TRUE]

\* C6: a ledger entry is never removed: no step of a fetch run, of a label
\* run or of a restart makes is_processed false for a pair it was true for.
C6_EntriesKept ==
  [][\A a \in Accounts, m \in MessageIds :
       is_processed(db, a, m) => is_processed(db', a, m)]_vars

\* a message was marked by the only run started so far, and the process was
\* restarted after it (a new ProcessedStore on the same database)
C6_Witness ==
  /\ db.rows /= {}
  /\ runs_left = MaxRuns - 1
  /\ run["p1"].pc = "ready"

AlreadyProcessed(r) ==
  {i \in DOMAIN r.emails : <<r.account, r.emails[i]>> \in r.ledger0}

\* C3: a fetched message that is in the ledger is skipped: the step that
\* meets it only counts it as skipped, it is never classified, and the
\* skipped count returned is the number of such messages of the batch.
C3_ProcessedSkipped ==
  /\ [](\A p \in DOMAIN run :
          /\ \A i \in AlreadyProcessed(run[p]) : run[p].emails[i] \notin run[p].classified
          /\ (run[p].pc = "done" /\ ~run[p].nothing)
               => run[p].skipped = Cardinality(AlreadyProcessed(run[p])))
  /\ [][\A p \in DOMAIN run :
          (/\ run[p].pc = "loop"
           /\ run[p].idx <= Len(run[p].emails)
           /\ is_processed(db, run[p].account, run[p].emails[run[p].idx])
           /\ run'[p] /= run[p])
            => /\ run'[p] = [run[p] EXCEPT !.skipped = @ + 1, !.idx = @ + 1]
               /\ UNCHANGED <<db, stats_file, gmail, apply_calls, ensure_calls>>]_vars

\* a run has returned from a batch of one message that was in the ledger and
\* one that was not and got classified
C3_Witness ==
  LET r == run["p1"]
  IN  /\ r.pc = "done"
      /\ Len(r.emails) = 2
      /\ r.skipped = 1
      /\ r.classified /= {}

\* the labels a run would count for its batch: those of the messages that
\* are not in the ledger
WouldApply(r, label) ==
  Cardinality({i \in DOMAIN r.emails :
                 /\ ~is_processed(db, r.account, r.emails[i])
                 /\ label \in Range(classify(classifier, Mail(r.emails[i])).value)})

\* C4: no step of a dry run changes the ledger, the statistics or the
\* mailbox or makes a gateway call for a label, and the counts it returns
\* are those of the labels it would have applied.
C4_DryRunFrame ==
  /\ [][\A p \in DOMAIN run :
          (run'[p] /= run[p] /\ run'[p].dry_run)
            => UNCHANGED <<db, stats_file, gmail, apply_calls, apply_returns,
                           ensure_calls, marked>>]_vars
  /\ [](\A p \in DOMAIN run :
          (run[p].pc = "done" /\ run[p].dry_run /\ ~run[p].nothing)
            => /\ \A l \in DOMAIN run[p].applied_labels :
                    run[p].applied_labels[l] = WouldApply(run[p], l)
               /\ \A l \in DEFAULT_LABELS :
                    WouldApply(run[p], l) > 0 => l \in DOMAIN run[p].applied_labels)

\* a dry run over two messages, one in the ledger and one with two labels,
\* has returned the counts of the two labels
C4_Witness ==
  LET r == run["p1"]
  IN  /\ r.pc = "done"
      /\ r.dry_run
      /\ r.skipped = 1
      /\ Cardinality(DOMAIN r.applied_labels) = 2

\* the messages of the batch a run has handed to apply_labels with success
AppliedInRun(r) ==
  {i \in DOMAIN r.emails :
     /\ i < r.idx
     /\ r.emails[i] \in DOMAIN r.applies}

\* a step of process p in which a gateway call of its run fails
GatewayFailure(p) ==
  LET r == run[p]
  IN  \/ \* fetch_unread_messages
         /\ r.pc \in {"ready", "done"}
         /\ run'[p].pc = "aborted"
      \/ \* ensure_label
         /\ r.pc = "ensure"
         /\ ensure_calls' /= ensure_calls
         /\ run'[p].label_cache = r.label_cache
      \/ \* apply_labels
         /\ r.pc = "apply"
         /\ apply_calls' /= apply_calls
         /\ apply_returns' = apply_returns

\* C21: a step in which fetch, ensure_label or apply_labels fails ends the
\* run and changes neither the ledger nor the mailbox nor the statistics;
\* a run that has ended so takes no further step of its own (only a new
\* context may follow, which keeps every ledger entry); and in that state
\* every message the run had labeled before is still in the ledger, no
\* message after the failing one was classified or labeled, and the failing
\* message is not in the ledger.
C21_GatewayFailureAborts ==
  /\ [][\A p \in DOMAIN run :
          GatewayFailure(p)
            => /\ run'[p].pc = "aborted"
               /\ UNCHANGED <<db, gmail, stats_file, marked>>]_vars
  /\ [][\A p \in DOMAIN run :
          (run[p].pc = "aborted" /\ run'[p] /= run[p])
            => /\ run'[p].pc = "ready"
               /\ db'.rows = db.rows
               /\ UNCHANGED <<gmail, apply_calls, ensure_calls, marked>>]_vars
  /\ [](\A p \in DOMAIN run :
          LET r == run[p]
          IN  (r.pc = "aborted" /\ ~r.dry_run)
                => /\ \A i \in AppliedInRun(r) :
                        is_processed(db, r.account, r.emails[i])
                   /\ \A j \in DOMAIN r.emails :
                        j > r.idx => /\ r.emails[j] \notin r.classified
                                     /\ r.emails[j] \notin DOMAIN r.applies
                   /\ r.idx \in DOMAIN r.emails
                        => ~is_processed(db, r.account, r.emails[r.idx]))

\* a run has stopped at its second message, whose apply_labels call failed,
\* after it had labeled and marked the first
C21_Witness ==
  LET r == run["p1"]
  IN  /\ r.pc = "aborted"
      /\ ~r.dry_run
      /\ Len(r.emails) = 2
      /\ r.idx = 2
      /\ AppliedInRun(r) = {1}
      /\ r.emails[2] \in DOMAIN r.applies
      /\ is_processed(db, r.account, r.emails[1])
      /\ ~is_processed(db, r.account, r.emails[2])

\* the messages of the batch whose labels a run has counted under a label
CountedInRun(r, label) ==
  {i \in DOMAIN r.emails :
     /\ r.emails[i] \in r.classified
     /\ label \in Range(classify(classifier, Mail(r.emails[i])).value)}

\* C22: the statistics change in a label run only in the step that ends it,
\* and they change there exactly when the run is no dry run and has counted
\* a label; label_runs then grows by one, globally and for the account, and
\* each label tally by the count the run accumulated; the counts of a run
\* that has ended number, label by label, the messages of the whole batch
\* that were classified under the label; a run that ends with the "nothing
\* to do" sentinel leaves the statistics alone.
C22_RecordedOncePerRun ==
  /\ [][\A p \in DOMAIN run :
          LET r == run[p]
              ends == r.pc = "loop" /\ run'[p].pc = "done"
              recorded == ~r.dry_run /\ DOMAIN r.applied_labels /= {}
          IN  /\ (Active(p) /\ ~ends) => stats_file' = stats_file
              /\ (ends /\ ~recorded) => stats_file' = stats_file
              /\ (ends /\ recorded)
                   => /\ GlobalCounter(stats_file', "label_runs")
                           = GlobalCounter(stats_file, "label_runs") + 1
                      /\ BucketCounter(stats_file', r.account, "label_runs")
                           = BucketCounter(stats_file, r.account, "label_runs") + 1
                      /\ \A l \in DEFAULT_LABELS :
                           GlobalTally(stats_file', l)
                             = GlobalTally(stats_file, l) + Get(r.applied_labels, l, 0)
              /\ (r.pc \in {"ready", "done"} /\ run'[p].pc = "done")
                   => (run'[p].nothing /\ stats_file' = stats_file)]_vars
  /\ [](\A p \in DOMAIN run :
          LET r == run[p]
          IN  (r.pc = "done" /\ ~r.nothing)
                => \A l \in DEFAULT_LABELS :
                     Get(r.applied_labels, l, 0) = Cardinality(CountedInRun(r, l)))

\* a run that labeled two messages, both under Finance, has ended and the
\* document counts one label run and two Finance labels
C22_Witness ==
  LET r == run["p1"]
  IN  /\ r.pc = "done"
      /\ ~r.dry_run
      /\ DOMAIN r.applies = {"abc", "m2"}
      /\ r.applied_labels = (Finance :> 2) @@ (Work :> 1)
      /\ GlobalCounter(stats_file, "label_runs") = 1
      /\ GlobalTally(stats_file, Finance) = 2

\* C23: a label run ends with the "nothing to do" sentinel exactly when its
\* fetch yielded no message, and the step that returns the sentinel changes
\* neither the ledger nor the statistics nor the mailbox; a run whose fetch
\* yielded a message ends with the pair of its counts and of the number of
\* messages it skipped, also when it counted no label.
C23_NothingToDo ==
  /\ [](\A p \in DOMAIN run :
          LET r == run[p]
          IN  /\ r.pc = "done" => (r.nothing <=> r.emails = <<>>)
              /\ r.nothing => (r.pc = "done" /\ r.applied_labels = EmptyDict
                                 /\ r.skipped = 0 /\ r.classified = {})
              /\ (r.pc = "done" /\ ~r.nothing)
                   => /\ r.skipped = Cardinality(AlreadyProcessed(r))
                      /\ \A l \in DEFAULT_LABELS :
                           Get(r.applied_labels, l, 0)
                             = Cardinality(CountedInRun(r, l)))
  /\ [][\A p \in DOMAIN run :
          run'[p].nothing
            => UNCHANGED <<db, stats_file, gmail, apply_calls, ensure_calls,
                           marked>>]_vars

\* a run whose fetch yielded one message, which no rule matched, has
\* returned the pair of no counts and no skipped message
C23_Witness ==
  LET r == run["p1"]
  IN  /\ r.pc = "done"
      /\ r.emails = <<"m3">>
      /\ ~r.nothing
      /\ r.applied_labels = EmptyDict
      /\ r.skipped = 0

\* a run whose fetch yielded no message has returned the sentinel after an
\* earlier run had labeled a message
C23_WitnessSentinel ==
  LET r == run["p1"]
  IN  /\ r.pc = "done"
      /\ r.nothing
      /\ r.emails = <<>>
      /\ db.rows /= {}

\* the labels the classifier of the context gives a message
LabelsOf(id) == classify(classifier, Mail(id))

\* C24: a step that adds entries to the ledger adds the one entry of the
\* message its run has just handed to apply_labels with success; each
\* ledger entry has a successful apply_labels call for its message, and as
\* many mark_processed calls as such calls, or one less between the two;
\* and the messages of a batch are handled in the order fetched: every
\* message before the current one is skipped, unlabeled or applied and
\* marked, the current one is the only one under way, and no message after
\* it has been classified or applied.
C24_MarkAfterApply ==
  /\ [][LedgerKeys(db') /= LedgerKeys(db)
          => \E p \in DOMAIN run :
               LET r == run[p]
               IN  /\ r.pc = "mark"
                   /\ r.emails[r.idx] \in DOMAIN r.applies
                   /\ apply_returns[r.account][r.emails[r.idx]] > 0
                   /\ LedgerKeys(db')
                        = LedgerKeys(db) \cup {<<r.account, r.emails[r.idx]>>}]_vars
  /\ [](\A a \in Accounts, m \in MessageIds :
          LET marks == Get(marked, <<a, m>>, 0)
          IN  /\ <<a, m>> \in LedgerKeys(db) <=> marks > 0
              /\ marks <= apply_returns[a][m]
              /\ apply_returns[a][m] <= marks + 1
              /\ apply_returns[a][m] = marks + 1
                   => \E p \in DOMAIN run :
                        /\ run[p].account = a
                        /\ run[p].pc = "mark"
                        /\ run[p].emails[run[p].idx] = m)
  /\ [](\A p \in DOMAIN run :
          LET r == run[p]
          IN  (r.pc \in {"loop", "ensure", "apply", "mark", "done"} /\ ~r.dry_run)
                => \A i \in DOMAIN r.emails :
                     /\ i < r.idx
                          => \/ i \in AlreadyProcessed(r)
                             \/ /\ r.emails[i] \in r.classified
                                /\ LabelsOf(r.emails[i]).value = <<>>
                             \/ /\ r.emails[i] \in r.classified
                                /\ r.emails[i] \in DOMAIN r.applies
                                /\ is_processed(db, r.account, r.emails[i])
                     /\ i > r.idx
                          => /\ r.emails[i] \notin r.classified
                             /\ r.emails[i] \notin DOMAIN r.applies
                     /\ (i = r.idx /\ r.pc \in {"ensure", "apply"})
                          => /\ r.emails[i] \in r.classified
                             /\ ~is_processed(db, r.account, r.emails[i]))

\* a run has applied and marked its first message and has classified its
\* second, which is neither applied nor in the ledger yet
C24_Witness ==
  LET r == run["p1"]
  IN  /\ r.pc = "ensure"
      /\ r.idx = 2
      /\ r.emails = <<"abc", "m2">>
      /\ DOMAIN r.applies = {"abc"}
      /\ LedgerKeys(db) = {<<r.account, "abc">>}
      /\ apply_returns[r.account]["abc"] = 1

\* the label ids a run hands to apply_labels for a message: one for each
\* label of the classification, in its order
IdsFor(r, id) ==
  [k \in DOMAIN LabelsOf(id).value |->
     ensure_label_id(gmail[r.account], LabelsOf(id).value[k])]

\* C25: in a label run that is no dry run, ensure_label is called at most
\* once for a label name, a name in the cache was ensured in this run, and a
\* run starts with an empty cache whatever earlier runs had ensured;
\* apply_labels is called at most once for a message, with the ids of all
\* labels of its classification, and when the run has ended it was called
\* for exactly the messages that were classified with a label.
C25_OneEnsureOneApply ==
  /\ [](\A p \in DOMAIN run :
          LET r == run[p]
          IN  ~r.dry_run
                => /\ \A l \in DOMAIN r.ensured : r.ensured[l] = 1
                   /\ DOMAIN r.label_cache \subseteq DOMAIN r.ensured
                   /\ \A m \in DOMAIN r.applies :
                        /\ Len(r.applies[m]) = 1
                        /\ r.applies[m][1] = IdsFor(r, m)
                        /\ Range(LabelsOf(m).value) \subseteq DOMAIN r.ensured
                   /\ r.pc = "done"
                        => DOMAIN r.applies
                             = {m \in r.classified : LabelsOf(m).value /= <<>>})
  /\ [][\A p \in DOMAIN run :
          (run[p].pc \in {"ready", "done"} /\ run'[p].pc = "loop")
            => /\ run'[p].label_cache = EmptyDict
               /\ run'[p].ensured = EmptyDict
               /\ run'[p].applies = EmptyDict]_vars
  /\ [][\A p \in DOMAIN run :
          (run[p].pc = "ensure" /\ run'[p] /= run[p])
            => LET r == run[p]
                   label == r.labels[r.lidx]
               IN  IF label \in DOMAIN r.ensured
                   THEN UNCHANGED <<ensure_calls, gmail>>
                   ELSE /\ ensure_calls' /= ensure_calls
                        /\ run'[p].ensured = Put(r.ensured, label, 1)]_vars

\* a run has labeled two messages that share a label: the label was ensured
\* once and each message was applied once, the first with both its ids
C25_Witness ==
  LET r == run["p1"]
  IN  /\ r.pc = "done"
      /\ ~r.dry_run
      /\ r.emails = <<"abc", "m2">>
      /\ r.ensured = (Finance :> 1) @@ (Work :> 1)
      /\ r.applies = ("abc" :> <<(<<Finance, Work>>)>>) @@ ("m2" :> <<(<<Finance>>)>>)

\* a later run has ensured a label an earlier run of the account had ensured
C25_WitnessLaterRun ==
  LET r == run["p1"]
  IN  /\ r.pc = "done"
      /\ r.emails = <<"m2">>
      /\ is_processed(db, r.account, "abc")
      /\ r.ensured = (Finance :> 1)

\* a step that leaves process p in a position of a label run
InLabelRun(p) ==
  /\ run'[p] /= run[p]
  /\ run'[p].pc \in {"loop", "ensure", "apply", "mark", "done"}

\* C28: in every state fetch_runs of an account is the number of its fetch
\* runs that returned, and emails_seen the number of messages they
\* returned, a fetch of no message being one run; the global counters hold
\* the sums over the accounts; and no step of a label run, its fetch
\* included, changes any of them.
C28_FetchCountersExact ==
  /\ [](/\ \A a \in Accounts :
             /\ BucketCounter(stats_file, a, "fetch_runs") = fetched[a].runs
             /\ BucketCounter(stats_file, a, "emails_seen") = fetched[a].seen
        /\ GlobalCounter(stats_file, "fetch_runs")
             = BucketSum(stats_file, "fetch_runs", Accounts)
        /\ GlobalCounter(stats_file, "emails_seen")
             = BucketSum(stats_file, "emails_seen", Accounts))
  /\ [][\A p \in DOMAIN run :
          InLabelRun(p)
            => /\ fetched' = fetched
               /\ \A name \in {"fetch_runs", "emails_seen"} :
                    /\ GlobalCounter(stats_file', name) = GlobalCounter(stats_file, name)
                    /\ \A a \in Accounts :
                         BucketCounter(stats_file', a, name)
                           = BucketCounter(stats_file, a, name)]_vars

\* after a fetch run that returned no message, a label run of the account
\* has fetched two messages and recorded their labels: one fetch run and no
\* message seen are counted
C28_Witness ==
  LET r == run["p1"]
  IN  /\ r.pc = "done"
      /\ Len(r.emails) = 2
      /\ GlobalCounter(stats_file, "label_runs") = 1
      /\ fetched[r.account] = [runs |-> 1, seen |-> 0]
      /\ BucketCounter(stats_file, r.account, "fetch_runs") = 1
      /\ BucketCounter(stats_file, r.account, "emails_seen") = 0

\* no rule of the configuration matches the message
Unlabeled(id) == Matching(TestRules, Mail(id)) = {}

\* C29: a message no rule matches is in no ledger, no ensure_label or
\* apply_labels call was made for it and it carries no label; the step that
\* classifies it only moves on to the next message, leaving the counts, the
\* ledger, the mailbox and the statistics as they were; and a run that has
\* ended classified every such message of its batch and counted none of
\* them as skipped.
C29_UnlabeledLeftAlone ==
  /\ [](\A a \in Accounts, m \in MessageIds :
          Unlabeled(m)
            => /\ ~is_processed(db, a, m)
               /\ Get(marked, <<a, m>>, 0) = 0
               /\ ensure_calls[a][m] = 0
               /\ apply_calls[a][m] = 0
               /\ gmail[a].msg_labels[m] = {})
  /\ [][\A p \in DOMAIN run :
          LET r == run[p]
          IN  (/\ r.pc = "loop"
               /\ r.idx <= Len(r.emails)
               /\ Unlabeled(r.emails[r.idx])
               /\ classify_calls' /= classify_calls)
                => /\ run'[p] = [r EXCEPT !.classified = @ \cup {r.emails[r.idx]},
                                          !.idx = @ + 1]
                   /\ classify_calls'[r.account][r.emails[r.idx]]
                        = classify_calls[r.account][r.emails[r.idx]] + 1
                   /\ UNCHANGED <<db, stats_file, gmail, marked, apply_calls,
                                  ensure_calls>>]_vars
  /\ [](\A p \in DOMAIN run :
          LET r == run[p]
          IN  (r.pc = "done" /\ ~r.nothing)
                => /\ \A i \in DOMAIN r.emails :
                        Unlabeled(r.emails[i])
                          => /\ r.emails[i] \in r.classified
                             /\ i \notin AlreadyProcessed(r)
                             /\ classify_calls[r.account][r.emails[i]] > 0
                   /\ r.skipped = Cardinality(AlreadyProcessed(r))
                   /\ \A l \in DOMAIN r.applied_labels :
                        r.applied_labels[l] =
                          Cardinality({i \in CountedInRun(r, l) :
                                         ~Unlabeled(r.emails[i])}))

\* a second run of the account has classified the message that no rule
\* matches, after the first had: it is in no ledger, nothing was applied
\* and nothing skipped
C29_Witness ==
  LET r == run["p1"]
  IN  /\ r.pc = "done"
      /\ ~r.dry_run
      /\ r.emails = <<"m3">>
      /\ r.classified = {"m3"}
      /\ classify_calls[r.account]["m3"] = 2
      /\ r.skipped = 0
      /\ r.applied_labels = EmptyDict
      /\ ~is_processed(db, r.account, "m3")

\* the messages of an account that carry a label in the mailbox: each was
\* handed to apply_labels with the label's id
ApplicationsOf(a, label) ==
  Cardinality({m \in MessageIds : label \in gmail[a].msg_labels[m]})

RECURSIVE Applications(_, _)
Applications(S, label) ==
  IF S = {} THEN 0
  ELSE LET a == CHOOSE a \in S : TRUE
       IN  ApplicationsOf(a, label) + Applications(S \ {a}, label)

\* C30: the step that aborts a run leaves the statistics as they were,
\* whatever the run had applied; the tallies change only in the step that
\* ends a run; and in every state each label tally, of an account and
\* overall, is at most the number of applications of the label made to the
\* mailbox.
C30_AbortedNeverCounted ==
  /\ [][\A p \in DOMAIN run :
          run'[p].pc = "aborted" => stats_file' = stats_file]_vars
  /\ [][(\E l \in DEFAULT_LABELS : GlobalTally(stats_file', l) /= GlobalTally(stats_file, l))
          => \E p \in DOMAIN run : run[p].pc = "loop" /\ run'[p].pc = "done"]_vars
  /\ [](\A l \in DEFAULT_LABELS :
          /\ GlobalTally(stats_file, l) <= Applications(Accounts, l)
          /\ \A a \in Accounts :
               BucketTally(stats_file, a, l) <= ApplicationsOf(a, l))
  /\ [](\A p \in DOMAIN run :
          LET r == run[p]
          IN  (r.pc = "aborted" /\ ~r.dry_run)
                => \A i \in AppliedInRun(r) :
                     /\ is_processed(db, r.account, r.emails[i])
                     /\ \A l \in Range(LabelsOf(r.emails[i]).value) :
                          BucketTally(stats_file, r.account, l)
                            < ApplicationsOf(r.account, l))

\* a run labeled a message under Finance and was aborted at the next one;
\* the following run skipped the first, labeled the second and recorded
\* it: the mailbox holds two Finance applications, the statistics count one
C30_Witness ==
  LET r == run["p1"]
  IN  /\ r.pc = "done"
      /\ ~r.dry_run
      /\ r.emails = <<"abc", "m2">>
      /\ r.skipped = 1
      /\ DOMAIN r.applies = {"m2"}
      /\ ApplicationsOf(r.account, Finance) = 2
      /\ BucketTally(stats_file, r.account, Finance) = 1
      /\ GlobalTally(stats_file, Finance) = 1

\* a run was aborted after it had labeled a message
C30_WitnessAborted ==
  LET r == run["p1"]
  IN  /\ r.pc = "aborted"
      /\ ~r.dry_run
      /\ AppliedInRun(r) = {1}
      /\ ApplicationsOf(r.account, Finance) = 1
      /\ GlobalTally(stats_file, Finance) = 0

\* the predictor the configuration asks for cannot be had: none is
\* configured, the model file is absent, or the package or the load fails
Unavailable(config, env) ==
  IF bool(config.model_path)
  THEN ~env.joblib \/ env.model_file \in {"absent", "broken"}
  ELSE IF bool(config.transformer_model)
  THEN ~env.transformers \/ ~env.hub
  ELSE TRUE

\* C27: when the predictor cannot be had, building the classifier does not
\* fail: it yields no predictor or one that is not ready, the strategy list
\* holds the rule-based strategy alone, and the classifier built classifies
\* by the rules.
C27_UnavailableNeverFails ==
  (ctx_pc /= "start" /\ Unavailable(ctx_config, ctx_env))
    => /\ ~raised(ctx_result)
       /\ ~bool(ctx_result.value.ml_classifier)
            \/ ~is_ready(ctx_result.value.ml_classifier)
       /\ ctx_result.value.strategies = <<RuleBasedStrategy(RulesEngine(TestRules))>>
       /\ ctx_pc = "classified" => ~raised(ctx_labels)

\* C26: when label runs keep being invoked and no call fails, every unread
\* message that a rule matches is eventually labeled and in the ledger.
C26_EventuallyLabeled ==
  \A m \in MessageIds :
    (m \in Range(unread) /\ ~Unlabeled(m))
      ~> (is_processed(db, "acct1", m) /\ gmail["acct1"].msg_labels[m] /= {})

(***************************************************************************)
(* Properties of a reload that fails                                       *)
(***************************************************************************)
\* a step in which reload is called on a constructed engine and raises
ReloadFailed ==
  /\ rules_pc = "rewritten"
  /\ rules_pc' = "loaded"
  /\ rules_result'.exc /= ""

\* C31: a reload that raises (file missing, not JSON, not an object, or a
\* rule without "label") leaves the engine's rule list as it was, so match
\* returns for every message what it returned before the reload; and the
\* result of a match is always the one of the rule list the engine holds.
C31_FailedReloadKeepsRules ==
  /\ [][ReloadFailed =>
          /\ rules_engine'.rules = rules_engine.rules
          /\ \A email \in RuleEmails :
               match(rules_engine'.rules, email) = match(rules_engine.rules, email)]_vars
  /\ [](rules_pc = "matched" =>
          rules_result = Return(match(rules_engine.rules, rules_email)))

\* the engine loaded a rule for Finance, the file was then rewritten with a
\* rule that lacks its label, reload raised KeyError, and the match that
\* followed still found Finance
C31_Witness ==
  /\ rules_pc = "matched"
  /\ reload(rules_file).exc = "KeyError"
  /\ Len(rules_engine.rules) = 1
  /\ rules_engine.rules[1].label = Finance
  /\ rules_result = Return(<<Finance>>)

====
